---- MODULE Spec2Model ----
(***************************************************************************)
(* Request-admission core of plantwater: the in-memory rate limiter and    *)
(* account lockout of lib/rateLimit.ts and the Redis-backed limiter of     *)
(* lib/redisRateLimit.ts, as state machines over a shared clock.           *)
(*                                                                         *)
(* Time is Date.now() in milliseconds, counted from the start of the       *)
(* process (the code only compares differences of times and tests          *)
(* optional timestamps for truthiness, so the clock starts at 1).          *)
(* An optional timestamp that is undefined is modelled as 0: the code      *)
(* reads such fields only through truthiness tests (`x && ...`,            *)
(* `x || ...`, `x ? ... : ...`, `!x`), which treat 0 and undefined alike.  *)
(***************************************************************************)
EXTENDS Integers, Sequences, FiniteSets, TLC

(***************************************************************************)
(* Bounds of the model.                                                    *)
(***************************************************************************)
\* largest maxRequests of a rule passed to isRateLimited
MaxReq == 2
\* largest windowMs of a rule passed to isRateLimited
MaxWindow == 2
\* largest blockDurationMs of a rule passed to isRateLimited
MaxBlock == 3
\* milliseconds the clock of the limiter runs past a whole number of days
MaxTime == 5
\* isRateLimited calls logged per key since the key was last fresh
MaxCalls == 4
\* whole days the clock runs
MaxDays == 1
\* failure windows (of 15 minutes) the clock of the lockout runs within a day
MaxWindows == 3
\* recordFailedLogin calls counted per identity since it last had no failures
MaxFailures == 6
\* milliseconds the clock of the lockout runs past a whole number of windows
MaxJitter == 2
\* rateLimitMiddleware calls of a run
MaxMiddlewareCalls == 5
\* checkRateLimit calls of a run against a store that answers every pipeline
MaxRedisCalls == 4
\* checkRateLimit calls of a run against a store whose pipelines may fail
MaxFaultCalls == 3
\* milliseconds the clock of the Redis limiter runs
MaxRedisTime == 3
\* seconds the clock of the Redis limiter runs
MaxSeconds == 2
\* authorize calls of a run
MaxAuthCalls == 3
\* protect calls of a run
MaxProtects == 3
\* config.maxConcurrentRequests in the runs of the gate (50 in the source)
MaxConcurrent == 1
\* the request count above which a request is flagged (20 in the source)
MaxFrequency == 1
\* request timeouts (30 s) the clock of the gate runs
MaxGateTicks == 2
\* withDoSProtection calls of a run
MaxWrappers == 2
\* route handler calls of a run
MaxRouteCalls == 3
\* recordFailedLogin calls of the Redis limiter on an identity
MaxLockCalls == 5
\* checkRateLimit calls of a process whose store fails and recovers
MaxOutageCalls == 6

VARIABLES
    now,              \* Date.now()
    rule,             \* the RateLimitRule the caller passes to isRateLimited
    rateLimitStore,   \* Map<string, RateLimitEntry>
    calls,            \* per key: what each isRateLimited call returned and left
    accountLockoutStore, \* Map<string, AccountLockoutEntry>
    failures,         \* per identity: the recordFailedLogin calls since it had no failures
    lastLockout,      \* the last call of a lockout function and what it returned
    lastMiddleware,   \* the last rateLimitMiddleware call and what it returned
    redis,            \* per server process: this.redis is set (REDIS_URL was given)
    fallbackStore,    \* per server process: Map<string, { count, resetTime }>
    zsets,            \* the Redis server: the sorted set of each key
    expireAt,         \* the Redis server: the time each key with a TTL expires
    conn,             \* per server process: the commands sent and not yet executed
    rcalls,           \* the checkRateLimit calls: where each stands, what it returned
    users,            \* prisma.user: the accounts, by email
    authCalls,        \* the authorize calls: where each stands, what it returned
    enabled,          \* DoSProtectionService.config.enabled
    activeRequests,   \* DoSProtectionService.activeRequests: Map<string, RequestMetrics>
    suspiciousIPs,    \* DoSProtectionService.suspiciousIPs: Set<string>
    requestCounts,    \* DoSProtectionService.requestCounts: Map<string, number>
    timers,           \* the setTimeout callbacks of the service that have not run
    protects,         \* the protect calls: where each stands, what it returned
    env,              \* process.env.ALLOWED_ORIGINS
    lastCsrf,         \* the last csrfProtection call and what it returned
    routeCalls,       \* the route handler calls: where each stands, what it returned
    hits,             \* per type, rule and identifier: the rateLimitMiddleware calls
    lockStore,        \* RedisRateLimiter.lockStore: Map<string, { lockTime, failures }>
    lockLog           \* per identity: what each recordFailedLogin of the limiter returned

limiterVars == <<rule, rateLimitStore, calls, lastMiddleware>>
lockoutVars == <<accountLockoutStore, failures, lastLockout>>
redisVars == <<redis, fallbackStore, zsets, expireAt, conn, rcalls>>
authVars == <<users, authCalls>>
dosVars == <<enabled, activeRequests, suspiciousIPs, requestCounts, timers, protects>>
routeVars == <<env, lastCsrf, routeCalls, hits>>
lockVars == <<lockStore, lockLog>>
vars == <<now, limiterVars, lockoutVars, redisVars, authVars, dosVars, routeVars, lockVars>>

(***************************************************************************)
(* lib/rateLimit.ts: the in-memory limiter                                 *)
(***************************************************************************)
\* keys handed to isRateLimited directly
Keys == {"test-key-1"}

\* the rules a caller may pass; blockDurationMs = 0 is "no block duration"
Rules ==
    [windowMs : 1..MaxWindow, maxRequests : 1..MaxReq, blockDurationMs : 0..MaxBlock]

\* Map.set(key, value)
MapSet(map, key, value) ==
    [k \in DOMAIN map \cup {key} |-> IF k = key THEN value ELSE map[k]]

\* Map.delete(key) for every key of a set
MapDeleteAll(map, keys) ==
    [k \in DOMAIN map \ keys |-> map[k]]

\* the 24 hours after which cleanupExpiredEntries drops an idle entry
CleanupAgeMs == 24 * 60 * 60 * 1000

\* the two places the code writes { count: 1, windowStart: now }
NewWindow(t) ==
    [count |-> 1, windowStart |-> t, blockedUntil |-> 0]

\* a limiter whose block ends with the counting window
BlockedWithinWindow(entry, t) ==
    entry.blockedUntil # 0 /\ t < entry.blockedUntil /\ t - entry.windowStart <= rule.windowMs

\* entry.blockedUntil && now < entry.blockedUntil
Blocked(entry, t) ==
    entry.blockedUntil # 0 /\ t < entry.blockedUntil

\* a limiter that lets the window run for twice windowMs
WindowExpiredLate(entry, r, t) ==
    t - entry.windowStart > 2 * r.windowMs

\* now - entry.windowStart > rule.windowMs
WindowExpired(entry, r, t) ==
    t - entry.windowStart > r.windowMs

\* a limiter that denies the call that reaches maxRequests
LimitExceededOffByOne(count, r) ==
    count >= r.maxRequests

\* entry.count > rule.maxRequests
LimitExceeded(count, r) ==
    count > r.maxRequests

\* the entry.blockedUntil of the over-limit branch
BlockedUntilOnExceed(entry, r, t) ==
    IF r.blockDurationMs # 0 THEN t + r.blockDurationMs ELSE entry.blockedUntil

\* isRateLimited(key, rule) at time t on store: the store it leaves and what it returns
isRateLimited(store, key, r, t) ==
    IF key \notin DOMAIN store
    THEN [store |-> MapSet(store, key, NewWindow(t)),
          ret |-> [limited |-> FALSE, remaining |-> r.maxRequests - 1]]
    ELSE LET entry == store[key] IN
         IF Blocked(entry, t)
         THEN [store |-> store,
               ret |-> [limited |-> TRUE, resetTime |-> entry.blockedUntil]]
         ELSE IF WindowExpired(entry, r, t)
         THEN [store |-> MapSet(store, key, NewWindow(t)),
               ret |-> [limited |-> FALSE, remaining |-> r.maxRequests - 1]]
         ELSE LET count == entry.count + 1 IN
              IF LimitExceeded(count, r)
              THEN LET bu == BlockedUntilOnExceed(entry, r, t) IN
                   [store |-> MapSet(store, key,
                                [entry EXCEPT !.count = count, !.blockedUntil = bu]),
                    ret |-> [limited |-> TRUE,
                             resetTime |-> IF bu # 0 THEN bu
                                           ELSE entry.windowStart + r.windowMs]]
              ELSE [store |-> MapSet(store, key, [entry EXCEPT !.count = count]),
                    ret |-> [limited |-> FALSE, remaining |-> r.maxRequests - count]]

\* one entry of the call log: the time of the call, its result, the entry it left
CallRecord(t, out, key) ==
    [at |-> t, ret |-> out.ret, entry |-> out.store[key]]

\* a caller invokes isRateLimited(key, rule)
IsRateLimited(key) ==
    /\ Len(calls[key]) < MaxCalls
    /\ LET out == isRateLimited(rateLimitStore, key, rule, now) IN
        /\ rateLimitStore' = out.store
        /\ calls' = [calls EXCEPT ![key] = Append(@, CallRecord(now, out, key))]
    /\ UNCHANGED <<now, rule, lastMiddleware, lockoutVars, redisVars, authVars, dosVars,
                   routeVars, lockVars>>

(***************************************************************************)
(* lib/rateLimit.ts: rateLimitMiddleware                                   *)
(*                                                                         *)
(* A string is the sequence of its pieces, ":" being a piece of its own,   *)
(* and a template literal is the concatenation of its parts.               *)
(***************************************************************************)
\* RATE_LIMIT_RULES
RATE_LIMIT_RULES ==
    [LOGIN |-> [windowMs |-> 15 * 60 * 1000, maxRequests |-> 5,
                blockDurationMs |-> 15 * 60 * 1000],
     REGISTRATION |-> [windowMs |-> 60 * 60 * 1000, maxRequests |-> 3,
                       blockDurationMs |-> 60 * 60 * 1000],
     AI_ANALYZE |-> [windowMs |-> 60 * 1000, maxRequests |-> 10,
                     blockDurationMs |-> 5 * 60 * 1000],
     AI_IDENTIFY |-> [windowMs |-> 60 * 1000, maxRequests |-> 5,
                      blockDurationMs |-> 5 * 60 * 1000],
     GENERAL |-> [windowMs |-> 60 * 1000, maxRequests |-> 60,
                  blockDurationMs |-> 60 * 1000]]

\* type: 'ip' | 'user'
Types == {"ip", "user"}

\* the rule names the runs pass to rateLimitMiddleware
RuleNames == {"LOGIN", "REGISTRATION"}

\* the identifiers the runs pass: an IPv4 address and the IPv6 loopback "::1"
Identifiers == {<<"1.2.3.4">>, <<":", ":", "1">>}

\* a key that leaves the rule out
KeyWithoutRule(type, identifier, ruleName) ==
    <<type, ":">> \o identifier

\* a key that leaves the type out
KeyWithoutType(type, identifier, ruleName) ==
    <<ruleName, ":">> \o identifier

\* getRateLimitKey(type, identifier, rule) = `${type}:${rule}:${identifier}`
getRateLimitKey(type, identifier, ruleName) ==
    <<type, ":", ruleName, ":">> \o identifier

\* rateLimitMiddleware(ruleName, identifier, type)
RateLimitMiddleware(ruleName, identifier, type) ==
    /\ lastMiddleware.n < MaxMiddlewareCalls
    /\ LET key == getRateLimitKey(type, identifier, ruleName)
           out == isRateLimited(rateLimitStore, key, RATE_LIMIT_RULES[ruleName], now)
       IN
        /\ rateLimitStore' = out.store
        /\ lastMiddleware' = [n |-> lastMiddleware.n + 1, type |-> type,
                              rule |-> ruleName, identifier |-> identifier,
                              limited |-> out.ret.limited]
    /\ UNCHANGED <<now, rule, calls, lockoutVars, redisVars, authVars, dosVars, routeVars,
                   lockVars>>

(***************************************************************************)
(* lib/rateLimit.ts: account lockout                                       *)
(***************************************************************************)
\* identities (emails) handed to the lockout functions
Emails == {"test@example.com"}

\* ACCOUNT_LOCKOUT_CONFIG
maxFailedAttempts == 5
lockoutDurationMs == 30 * 60 * 1000
failureWindowMs == 15 * 60 * 1000

\* a failure window that lasts as long as a lockout
FailureWindowPassedLate(entry, t) ==
    t - entry.lastFailure > lockoutDurationMs

\* now - entry.lastFailure > ACCOUNT_LOCKOUT_CONFIG.failureWindowMs
FailureWindowPassed(entry, t) ==
    t - entry.lastFailure > failureWindowMs

\* a lockout that locks one failure late
ShouldLockLate(failedAttempts) ==
    failedAttempts > maxFailedAttempts

\* entry.failedAttempts >= ACCOUNT_LOCKOUT_CONFIG.maxFailedAttempts
ShouldLock(failedAttempts) ==
    failedAttempts >= maxFailedAttempts

\* recordFailedLogin(email) at time t: the store it leaves and what it returns
recordFailedLogin(store, email, t) ==
    LET entry == IF email \in DOMAIN store THEN store[email]
                 ELSE [failedAttempts |-> 0, lastFailure |-> 0, lockedUntil |-> 0]
        kept == IF FailureWindowPassed(entry, t) THEN 0 ELSE entry.failedAttempts
        failedAttempts == kept + 1
    IN  IF ShouldLock(failedAttempts)
        THEN [store |-> MapSet(store, email,
                          [failedAttempts |-> failedAttempts, lastFailure |-> t,
                           lockedUntil |-> t + lockoutDurationMs]),
              ret |-> [locked |-> TRUE, lockedUntil |-> t + lockoutDurationMs]]
        ELSE [store |-> MapSet(store, email,
                          [failedAttempts |-> failedAttempts, lastFailure |-> t,
                           lockedUntil |-> entry.lockedUntil]),
              ret |-> [locked |-> FALSE,
                       attemptsRemaining |-> maxFailedAttempts - failedAttempts]]

\* a lock that is still reported at the instant lockedUntil
LockElapsedLate(entry, t) ==
    t > entry.lockedUntil

\* now >= entry.lockedUntil
LockElapsed(entry, t) ==
    t >= entry.lockedUntil

\* isAccountLocked(email) at time t: the store it leaves and what it returns
isAccountLocked(store, email, t) ==
    IF email \notin DOMAIN store \/ store[email].lockedUntil = 0
    THEN [store |-> store, ret |-> [locked |-> FALSE]]
    ELSE IF LockElapsed(store[email], t)
    THEN [store |-> MapSet(store, email,
                      [store[email] EXCEPT !.lockedUntil = 0, !.failedAttempts = 0]),
          ret |-> [locked |-> FALSE]]
    ELSE [store |-> store,
          ret |-> [locked |-> TRUE, lockedUntil |-> store[email].lockedUntil]]

\* a clearFailedLogins that lifts the lock and keeps the count
clearLockOnly(store, email) ==
    IF email \in DOMAIN store
    THEN MapSet(store, email, [store[email] EXCEPT !.lockedUntil = 0])
    ELSE store

\* clearFailedLogins(email): the store it leaves
clearFailedLogins(store, email) ==
    IF email \in DOMAIN store
    THEN MapSet(store, email,
           [store[email] EXCEPT !.failedAttempts = 0, !.lockedUntil = 0])
    ELSE store

\* the identity has no recorded failures
NoFailures(store, email) ==
    email \notin DOMAIN store \/ store[email].failedAttempts = 0

\* no recordFailedLogin call counted
NoCalls == [n |-> 0, first |-> 0]

\* the count of an identity after a step that leaves store: emptied when the
\* identity is left without recorded failures
FailuresAfter(counted, store, email) ==
    IF NoFailures(store, email) THEN NoCalls ELSE counted

\* what the last clearFailedLogins(email) found, as long as no
\* recordFailedLogin(email) but the one just made has followed it
ClearedBefore(email) ==
    IF lastLockout.email = email /\ lastLockout.op # "recordFailedLogin"
    THEN lastLockout.cleared ELSE "none"

\* what clearFailedLogins(email) finds in the store
ClearedNow(email) ==
    IF email \notin DOMAIN accountLockoutStore THEN "no entry"
    ELSE IF accountLockoutStore[email].lockedUntil # 0 THEN "lock"
    ELSE "failures"

\* a caller invokes recordFailedLogin(email)
RecordFailedLogin(email) ==
    /\ failures[email].n < MaxFailures
    /\ LET out == recordFailedLogin(accountLockoutStore, email, now)
           counted == FailuresAfter(failures[email], accountLockoutStore, email)
       IN
        /\ accountLockoutStore' = out.store
        /\ failures' = [failures EXCEPT ![email] =
                          [n |-> counted.n + 1,
                           first |-> IF counted.n = 0 THEN now ELSE counted.first]]
        /\ lastLockout' = [op |-> "recordFailedLogin", email |-> email,
                           at |-> now, ret |-> out.ret,
                           expired |-> /\ lastLockout.op = "isAccountLocked"
                                       /\ lastLockout.email = email
                                       /\ lastLockout.expired,
                           cleared |-> ClearedBefore(email)]
    /\ UNCHANGED <<now, limiterVars, redisVars, authVars, dosVars, routeVars, lockVars>>

\* a caller invokes isAccountLocked(email)
IsAccountLocked(email) ==
    /\ LET out == isAccountLocked(accountLockoutStore, email, now) IN
        /\ accountLockoutStore' = out.store
        /\ failures' = [failures EXCEPT ![email] = FailuresAfter(@, out.store, email)]
        /\ lastLockout' = [op |-> "isAccountLocked", email |-> email,
                           at |-> now, ret |-> out.ret,
                           expired |-> /\ email \in DOMAIN accountLockoutStore
                                       /\ accountLockoutStore[email].lockedUntil # 0
                                       /\ now >= accountLockoutStore[email].lockedUntil,
                           cleared |-> ClearedBefore(email)]
    /\ UNCHANGED <<now, limiterVars, redisVars, authVars, dosVars, routeVars, lockVars>>

\* a caller invokes clearFailedLogins(email)
ClearFailedLogins(email) ==
    /\ accountLockoutStore' = clearFailedLogins(accountLockoutStore, email)
    /\ failures' = [failures EXCEPT ![email] =
                      FailuresAfter(@, accountLockoutStore', email)]
    /\ lastLockout' = [op |-> "clearFailedLogins", email |-> email,
                       at |-> now, ret |-> [locked |-> FALSE], expired |-> FALSE,
                       cleared |-> ClearedNow(email)]
    /\ UNCHANGED <<now, limiterVars, redisVars, authVars, dosVars, routeVars, lockVars>>

(***************************************************************************)
(* lib/rateLimit.ts: the sweep                                             *)
(***************************************************************************)
\* isExpired of a rate limit entry
RateLimitEntryExpired(entry, t) ==
    IF entry.blockedUntil # 0 THEN t > entry.blockedUntil
    ELSE t - entry.windowStart > CleanupAgeMs

\* a sweep that takes a lock a failure window before it elapses
LockoutEntryExpiredEarly(entry, t) ==
    IF entry.lockedUntil # 0 THEN t > entry.lockedUntil - failureWindowMs
    ELSE t - entry.lastFailure > CleanupAgeMs

\* isExpired of an account lockout entry
LockoutEntryExpired(entry, t) ==
    IF entry.lockedUntil # 0 THEN t > entry.lockedUntil
    ELSE t - entry.lastFailure > CleanupAgeMs

\* a sweep that returns after the first store in which it deleted an entry
cleanupStopsAfterFirst(rateLimits, lockouts, t) ==
    LET goneKeys == {k \in DOMAIN rateLimits : RateLimitEntryExpired(rateLimits[k], t)} IN
    [rateLimitStore |-> MapDeleteAll(rateLimits, goneKeys),
     accountLockoutStore |->
        IF goneKeys # {} THEN lockouts
        ELSE MapDeleteAll(lockouts,
                {e \in DOMAIN lockouts : LockoutEntryExpired(lockouts[e], t)})]

\* cleanupExpiredEntries() at time t: the two stores it leaves
cleanupExpiredEntries(rateLimits, lockouts, t) ==
    [rateLimitStore |-> MapDeleteAll(rateLimits,
        {k \in DOMAIN rateLimits : RateLimitEntryExpired(rateLimits[k], t)}),
     accountLockoutStore |-> MapDeleteAll(lockouts,
        {e \in DOMAIN lockouts : LockoutEntryExpired(lockouts[e], t)})]

\* cleanupExpiredEntries(): both stores are swept
CleanupExpiredEntries ==
    LET out == cleanupExpiredEntries(rateLimitStore, accountLockoutStore, now)
        goneKeys == DOMAIN rateLimitStore \ DOMAIN out.rateLimitStore
        goneEmails == DOMAIN accountLockoutStore \ DOMAIN out.accountLockoutStore
    IN  /\ rateLimitStore' = out.rateLimitStore
        /\ accountLockoutStore' = out.accountLockoutStore
        /\ calls' = [k \in Keys |-> IF k \in goneKeys THEN <<>> ELSE calls[k]]
        /\ failures' = [e \in Emails |-> IF e \in goneEmails THEN NoCalls
                                          ELSE failures[e]]
        /\ UNCHANGED <<now, rule, lastLockout, lastMiddleware, redisVars,
                 authVars, dosVars, routeVars, lockVars>>

(***************************************************************************)
(* lib/redisRateLimit.ts: RedisRateLimiter.checkRateLimit                  *)
(*                                                                         *)
(* Several server processes share one Redis server; each has its own       *)
(* RedisRateLimiter (this.redis, this.fallbackStore) and one connection.   *)
(* pipeline().exec() sends its commands in one batch on the connection:    *)
(* Redis executes the commands of a connection in the order sent, one at a *)
(* time, and may execute commands of other connections in between (a       *)
(* pipeline is no MULTI transaction).                                      *)
(***************************************************************************)
\* the server processes behind the shared store
Procs == {"p1", "p2"}

\* the checkRateLimit calls of a run, in the order they are made
CallIds == 1..MaxRedisCalls

\* the checkRateLimit calls of a run with outages
OutageIds == 1..MaxOutageCalls

\* the rules the runs pass to checkRateLimit
RedisRules ==
    {[windowMs |-> MaxWindow, maxRequests |-> 1],
     [windowMs |-> MaxWindow, maxRequests |-> MaxReq]}

\* the prefixes and identifiers the runs pass
Prefixes == {"dos"}
RedisIdentifiers == {<<"1.2.3.4">>}

\* const key = `${prefix}:${identifier}`
RedisKey(prefix, identifier) ==
    <<prefix, ":">> \o identifier

\* Math.ceil(rule.windowMs / 1000), the TTL in seconds
TtlSeconds(r) ==
    (r.windowMs + 999) \div 1000

\* the commands of the pipeline, in the order they are queued
PipelineCommands == <<"zremrangebyscore", "zadd", "zcard", "expire">>

\* a call that has not been made
IdleCall ==
    [pc |-> "idle", proc |-> "", prefix |-> "", identifier |-> <<>>,
     rule |-> [windowMs |-> 0, maxRequests |-> 0], now |-> 0, executed |-> 0,
     zcard |-> 0, faulted |-> FALSE, path |-> "none",
     result |-> [success |-> FALSE, totalCount |-> 0, remainingRequests |-> 0,
                 resetTime |-> 0]]

\* Math.max(0, x)
Max0(x) == IF x > 0 THEN x ELSE 0

\* a catch block that gives the store up for good
RedisDroppedAfterCatch(client) ==
    FALSE

\* what the catch block leaves in this.redis
RedisAfterCatch(client) ==
    client

\* checkRateLimitMemory(identifier, rule, prefix) at time t on a process's
\* fallbackStore: the store it leaves and what it returns
checkRateLimitMemory(store, identifier, r, prefix, t) ==
    LET key == RedisKey(prefix, identifier) IN
    IF key \notin DOMAIN store \/ t > store[key].resetTime
    THEN [store |-> MapSet(store, key, [count |-> 1, resetTime |-> t + r.windowMs]),
          ret |-> [success |-> TRUE, totalCount |-> 1,
                   remainingRequests |-> r.maxRequests - 1,
                   resetTime |-> t + r.windowMs]]
    ELSE LET count == store[key].count + 1 IN
         [store |-> MapSet(store, key, [store[key] EXCEPT !.count = count]),
          ret |-> [success |-> count <= r.maxRequests, totalCount |-> count,
                   remainingRequests |-> Max0(r.maxRequests - count),
                   resetTime |-> store[key].resetTime]]

\* the RateLimitResult computed from the pipeline's results
PipelineResult(totalCount, r, t) ==
    [success |-> totalCount <= r.maxRequests,
     totalCount |-> totalCount,
     remainingRequests |-> Max0(r.maxRequests - totalCount),
     resetTime |-> t + r.windowMs]

\* ZREMRANGEBYSCORE key 0 max: the members left
ZRemRangeByScore(members, max) ==
    {m \in members : ~(0 <= m.score /\ m.score <= max)}

\* the sorted sets after the set of key becomes members: Redis deletes a key
\* whose set is empty, and its TTL with it
ZStore(sets, key, members) ==
    IF members = {} THEN MapDeleteAll(sets, {key}) ELSE MapSet(sets, key, members)

\* checkRateLimit(identifier, rule, prefix) is called on process p: with
\* this.redis set the pipeline is sent and the call awaits exec(); without
\* it the call is decided by checkRateLimitMemory at once
CheckRateLimit(c, p, identifier, r, prefix) ==
    /\ rcalls[c].pc = "idle"
    /\ \A d \in DOMAIN rcalls : d < c => rcalls[d].pc # "idle"
    /\ IF redis[p]
       THEN /\ conn' = [conn EXCEPT ![p] =
                          @ \o [i \in 1..Len(PipelineCommands) |->
                                    [call |-> c, cmd |-> PipelineCommands[i]]]]
            /\ rcalls' = [rcalls EXCEPT ![c] =
                            [IdleCall EXCEPT !.pc = "awaiting", !.proc = p,
                                !.prefix = prefix, !.identifier = identifier,
                                !.rule = r, !.now = now]]
            /\ UNCHANGED fallbackStore
       ELSE LET out == checkRateLimitMemory(fallbackStore[p], identifier, r, prefix, now) IN
            /\ fallbackStore' = [fallbackStore EXCEPT ![p] = out.store]
            /\ rcalls' = [rcalls EXCEPT ![c] =
                            [IdleCall EXCEPT !.pc = "done", !.proc = p,
                                !.prefix = prefix, !.identifier = identifier,
                                !.rule = r, !.now = now, !.path = "memory",
                                !.result = out.ret]]
            /\ UNCHANGED conn
    /\ UNCHANGED <<now, limiterVars, lockoutVars, redis, zsets, expireAt,
                 authVars, dosVars, routeVars, lockVars>>

\* the Redis server executes command cmd of call c at time t on
\* st = [zsets, expireAt, zcard]: the sets, the TTLs and the count it leaves
ExecCommand(st, c, cmd, t) ==
    LET key == RedisKey(rcalls[c].prefix, rcalls[c].identifier)
        r == rcalls[c].rule
        windowStart == rcalls[c].now - r.windowMs
        members == IF key \in DOMAIN st.zsets THEN st.zsets[key] ELSE {}
    IN  IF cmd = "zremrangebyscore"
        THEN LET left == ZRemRangeByScore(members, windowStart) IN
             [st EXCEPT !.zsets = ZStore(st.zsets, key, left),
                        !.expireAt = IF left = {} THEN MapDeleteAll(@, {key}) ELSE @]
        ELSE IF cmd = "zadd"
        THEN [st EXCEPT !.zsets = ZStore(st.zsets, key,
                            members \cup {[score |-> rcalls[c].now, member |-> c]})]
        ELSE IF cmd = "zcard"
        THEN [st EXCEPT !.zcard = Cardinality(members)]
        ELSE IF key \in DOMAIN st.zsets
        THEN [st EXCEPT !.expireAt = MapSet(@, key, t + 1000 * TtlSeconds(r))]
        ELSE st

\* the commands cmds of call c executed one after the other
RECURSIVE ExecCommands(_, _, _, _)
ExecCommands(st, c, cmds, t) ==
    IF cmds = <<>> THEN st
    ELSE ExecCommands(ExecCommand(st, c, Head(cmds), t), c, Tail(cmds), t)

\* the Redis server executes the first n commands of the connection of
\* process p, all of one call
RedisExecutes(p, n) ==
    /\ Len(conn[p]) >= n
    /\ LET c == Head(conn[p]).call
           cmds == [i \in 1..n |-> conn[p][i].cmd]
           st == ExecCommands([zsets |-> zsets, expireAt |-> expireAt,
                               zcard |-> rcalls[c].zcard], c, cmds, now)
       IN
        /\ \A i \in 1..n : conn[p][i].call = c
        /\ conn' = [conn EXCEPT ![p] = SubSeq(@, n + 1, Len(@))]
        /\ zsets' = st.zsets
        /\ expireAt' = st.expireAt
        /\ rcalls' = [rcalls EXCEPT ![c].executed = @ + n, ![c].zcard = st.zcard]
    /\ UNCHANGED <<now, limiterVars, lockoutVars, redis, fallbackStore,
                 authVars, dosVars, routeVars, lockVars>>

\* the Redis server executes the next command of the connection of process p
RedisExec(p) ==
    RedisExecutes(p, 1)

\* the Redis server executes the next pipeline of the connection of process
\* p with no command of another connection in between
RedisExecPipeline(p) ==
    RedisExecutes(p, Len(PipelineCommands))

\* exec() resolves with the results of the four commands: the call returns
PipelineResolves(c) ==
    /\ rcalls[c].pc = "awaiting"
    /\ rcalls[c].executed = Len(PipelineCommands)
    /\ rcalls' = [rcalls EXCEPT ![c].pc = "done", ![c].path = "redis",
                     ![c].result = PipelineResult(rcalls[c].zcard, rcalls[c].rule,
                                                  rcalls[c].now)]
    /\ UNCHANGED <<now, limiterVars, lockoutVars, redis, fallbackStore, zsets,
                   expireAt, conn, authVars, dosVars, routeVars, lockVars>>

\* exec() rejects, or resolves with no results and the code throws: what is
\* still unsent is dropped, the catch block logs, and the call is decided by
\* checkRateLimitMemory
PipelineFails(c, fault) ==
    /\ rcalls[c].pc = "awaiting"
    /\ LET p == rcalls[c].proc
           out == checkRateLimitMemory(fallbackStore[p], rcalls[c].identifier,
                                       rcalls[c].rule, rcalls[c].prefix, now)
       IN
        /\ conn' = [conn EXCEPT ![p] = SelectSeq(@, LAMBDA x : x.call # c)]
        /\ redis' = [redis EXCEPT ![p] = RedisAfterCatch(@)]
        /\ fallbackStore' = [fallbackStore EXCEPT ![p] = out.store]
        /\ rcalls' = [rcalls EXCEPT ![c].pc = "done", ![c].path = "memory",
                         ![c].faulted = TRUE, ![c].result = out.ret]
    /\ UNCHANGED <<now, limiterVars, lockoutVars, zsets, expireAt, authVars, dosVars,
                   routeVars, lockVars>>

\* the Redis server drops a key whose TTL has run out
RedisKeyExpires(key) ==
    /\ key \in DOMAIN expireAt
    /\ now >= expireAt[key]
    /\ zsets' = MapDeleteAll(zsets, {key})
    /\ expireAt' = MapDeleteAll(expireAt, {key})
    /\ UNCHANGED <<now, limiterVars, lockoutVars, redis, fallbackStore, conn, rcalls,
                 authVars, dosVars, routeVars, lockVars>>

(***************************************************************************)
(* lib/redisRateLimit.ts: the lockout of RedisRateLimiter and cleanup      *)
(*                                                                         *)
(* The lockout functions of the limiter of process p1 constructed without  *)
(* REDIS_URL (this.redis is null): each runs on this.lockStore and has no  *)
(* await before its return.                                                *)
(***************************************************************************)
\* const lockDuration = 15 * 60 * 1000
lockDuration == 15 * 60 * 1000

\* const maxAttempts = 5
maxAttempts == 5

\* Date.now() when a run of the limiter's lockout starts: the time since
\* 1970 is longer than lockDuration
Epoch == lockDuration + 1

\* Date.now() < lockData.lockTime + lockDuration
WithinLock(lockData, t) ==
    t < lockData.lockTime + lockDuration

\* isAccountLocked(email) of the limiter at time t on its lockStore: the
\* store it leaves and what it returns
isAccountLockedMemory(store, email, t) ==
    IF email \notin DOMAIN store
    THEN [store |-> store, ret |-> [locked |-> FALSE, remainingTime |-> 0]]
    ELSE IF WithinLock(store[email], t)
    THEN [store |-> store,
          ret |-> [locked |-> TRUE,
                   remainingTime |-> store[email].lockTime + lockDuration - t]]
    ELSE [store |-> MapDeleteAll(store, {email}),
          ret |-> [locked |-> FALSE, remainingTime |-> 0]]

\* recordFailedLogin(email) of the limiter at time t on its lockStore: the
\* store it leaves and what it returns
recordFailedLoginMemory(store, email, t) ==
    LET lockData == IF email \in DOMAIN store THEN store[email]
                    ELSE [lockTime |-> 0, failures |-> 0]
        attempts == lockData.failures + 1
    IN  IF attempts >= maxAttempts
        THEN [store |-> MapSet(store, email, [lockTime |-> t, failures |-> attempts]),
              ret |-> [locked |-> TRUE, remainingTime |-> lockDuration]]
        ELSE [store |-> MapSet(store, email, [lockData EXCEPT !.failures = attempts]),
              ret |-> [locked |-> FALSE, remainingTime |-> 0]]

\* cleanup() at time t: the fallbackStore and the lockStore it leaves
cleanup(fallback, locks, t) ==
    [fallbackStore |-> MapDeleteAll(fallback,
                          {k \in DOMAIN fallback : t > fallback[k].resetTime}),
     lockStore |-> MapDeleteAll(locks,
                          {e \in DOMAIN locks : t > locks[e].lockTime + lockDuration})]

\* a caller invokes redisRateLimiter.recordFailedLogin(email)
LimiterRecordFailedLogin(email) ==
    /\ ~redis["p1"]
    /\ Len(lockLog[email]) < MaxLockCalls
    /\ LET out == recordFailedLoginMemory(lockStore, email, now) IN
        /\ lockStore' = out.store
        /\ lockLog' = [lockLog EXCEPT ![email] =
                          Append(@, [at |-> now, locked |-> out.ret.locked])]
    /\ UNCHANGED <<now, limiterVars, lockoutVars, redisVars, authVars, dosVars, routeVars>>

\* a caller invokes redisRateLimiter.isAccountLocked(email)
LimiterIsAccountLocked(email) ==
    /\ ~redis["p1"]
    /\ lockStore' = isAccountLockedMemory(lockStore, email, now).store
    /\ UNCHANGED <<now, limiterVars, lockoutVars, redisVars, authVars, dosVars, routeVars,
                   lockLog>>

\* a caller invokes redisRateLimiter.clearFailedLogins(email)
LimiterClearFailedLogins(email) ==
    /\ ~redis["p1"]
    /\ lockStore' = MapDeleteAll(lockStore, {email})
    /\ lockLog' = [lockLog EXCEPT ![email] = <<>>]
    /\ UNCHANGED <<now, limiterVars, lockoutVars, redisVars, authVars, dosVars, routeVars>>

\* the interval of the module runs redisRateLimiter.cleanup()
LimiterCleanup ==
    /\ LET out == cleanup(fallbackStore["p1"], lockStore, now) IN
        /\ fallbackStore' = [fallbackStore EXCEPT !["p1"] = out.fallbackStore]
        /\ lockStore' = out.lockStore
    /\ UNCHANGED <<now, limiterVars, lockoutVars, redis, zsets, expireAt, conn, rcalls,
                   authVars, dosVars, routeVars, lockLog>>

(***************************************************************************)
(* lib/auth.ts: authorize of the credentials provider                      *)
(*                                                                         *)
(* authorize is async: it runs to its first await (prisma.user.findUnique) *)
(* in one step, from there to its second await (bcryptjs.compare) in one   *)
(* step, and from there to its return in one step; steps of other          *)
(* authorize calls run in between.                                         *)
(***************************************************************************)
\* the authorize calls of a run
AuthIds == 1..MaxAuthCalls

\* credentials.email: missing or an email
AuthEmails == {""} \cup Emails

\* credentials.password: missing, the password of the account or another one
Passwords == {"", "right", "wrong"}

\* findUnique found no user
NoUser == [found |-> FALSE, password |-> ""]

\* the user rows prisma can hold for an email: none, an account with a
\* password hash, an account without one
UserRows == {NoUser, [found |-> TRUE, password |-> "right"],
             [found |-> TRUE, password |-> ""]}

\* an authorize call that has not been made
IdleAuth ==
    [pc |-> "idle", email |-> "", password |-> "", result |-> "none",
     lockStatus |-> "none", recorded |-> 0, cleared |-> FALSE]

\* !credentials?.email || !credentials?.password
CredentialsMissing(email, password) ==
    email = "" \/ password = ""

\* !user || !user.password
UserMissing(user) ==
    ~user.found \/ user.password = ""

\* a comparison that accepts every password
AnyPasswordValid(password, user) ==
    TRUE

\* bcryptjs.compare(credentials.password, user.password)
isPasswordValid(password, user) ==
    password = user.password

\* an authorize that records nothing
RecordNothing(store, email, t) ==
    store

\* recordFailedLogin(credentials.email) when there is no user to compare with
RecordMissingUser(store, email, t) ==
    recordFailedLogin(store, email, t).store

\* recordFailedLogin(credentials.email) when the password is not valid
RecordWrongPassword(store, email, t) ==
    recordFailedLogin(store, email, t).store

\* authorize up to prisma.user.findUnique: the missing-credentials check and
\* the lock check
AuthorizeBegins(a, email, password) ==
    /\ authCalls[a].pc = "idle"
    /\ \A b \in AuthIds : b < a => authCalls[b].pc # "idle"
    /\ IF CredentialsMissing(email, password)
       THEN /\ authCalls' = [authCalls EXCEPT ![a] =
                    [@ EXCEPT !.pc = "done", !.email = email, !.password = password,
                              !.result = "null"]]
            /\ UNCHANGED accountLockoutStore
       ELSE LET lockStatus == isAccountLocked(accountLockoutStore, email, now) IN
            /\ accountLockoutStore' = lockStatus.store
            /\ authCalls' = [authCalls EXCEPT ![a] =
                    [@ EXCEPT !.pc = IF lockStatus.ret.locked THEN "done"
                                     ELSE "findUnique",
                              !.email = email, !.password = password,
                              !.lockStatus = IF lockStatus.ret.locked THEN "locked"
                                             ELSE "free",
                              !.result = IF lockStatus.ret.locked THEN "null"
                                         ELSE "none"]]
    /\ UNCHANGED <<now, limiterVars, failures, lastLockout, redisVars, users, dosVars,
                   routeVars, lockVars>>

\* findUnique resolves: authorize runs up to bcryptjs.compare, or records the
\* failure and returns null when there is no user to compare with
AuthorizeFindsUser(a) ==
    /\ authCalls[a].pc = "findUnique"
    /\ LET email == authCalls[a].email
           user == users[email]
       IN  IF UserMissing(user)
           THEN /\ accountLockoutStore' =
                        RecordMissingUser(accountLockoutStore, email, now)
                /\ authCalls' = [authCalls EXCEPT ![a] =
                        [@ EXCEPT !.pc = "done", !.result = "null",
                                  !.recorded = @ + 1]]
           ELSE /\ authCalls' = [authCalls EXCEPT ![a].pc = "compare"]
                /\ UNCHANGED accountLockoutStore
    /\ UNCHANGED <<now, limiterVars, failures, lastLockout, redisVars, users, dosVars,
                   routeVars, lockVars>>

\* findUnique rejects: authorize throws
AuthorizeFindFails(a) ==
    /\ authCalls[a].pc = "findUnique"
    /\ authCalls' = [authCalls EXCEPT ![a] = [@ EXCEPT !.pc = "done", !.result = "error"]]
    /\ UNCHANGED <<now, limiterVars, lockoutVars, redisVars, users, dosVars, routeVars, lockVars>>

\* bcryptjs.compare resolves: authorize records the failure and returns
\* null, or clears the failures and returns the user
AuthorizeCompares(a) ==
    /\ authCalls[a].pc = "compare"
    /\ LET email == authCalls[a].email
           user == users[email]
       IN  IF ~isPasswordValid(authCalls[a].password, user)
           THEN /\ accountLockoutStore' =
                        RecordWrongPassword(accountLockoutStore, email, now)
                /\ authCalls' = [authCalls EXCEPT ![a] =
                        [@ EXCEPT !.pc = "done", !.result = "null",
                                  !.recorded = @ + 1]]
           ELSE /\ accountLockoutStore' = clearFailedLogins(accountLockoutStore, email)
                /\ authCalls' = [authCalls EXCEPT ![a] =
                        [@ EXCEPT !.pc = "done", !.result = "user",
                                  !.cleared = TRUE]]
    /\ UNCHANGED <<now, limiterVars, failures, lastLockout, redisVars, users, dosVars,
                   routeVars, lockVars>>

(***************************************************************************)
(* lib/dosProtection.ts: DoSProtectionService.protect                      *)
(*                                                                         *)
(* protect is async: it runs to `await this.checkRequestSize(request)` in  *)
(* one step, from there to `await this.checkRateLimit(request, ip)` in one *)
(* step (checkRateLimit and, without Redis, the limiter's in-memory check  *)
(* run synchronously up to that await), and from there to its return in    *)
(* one step; steps of other protect calls and timers run in between.       *)
(* A header or a path is the sequence of its pieces; includes() looks for  *)
(* a piece. A setTimeout callback runs at the instant it is due.           *)
(***************************************************************************)
\* the protect calls of a run
ProtectIds == 1..MaxProtects

\* client IPs, as getClientIP returns them
IPs == {<<"1.2.3.4">>, <<"5.6.7.8">>}

\* config of the service
maxRequestSize == 10 * 1024 * 1024
maxConcurrentRequests == MaxConcurrent
requestTimeout == 30000
suspiciousPatternDetection == TRUE

\* the count of requests of the last minute above which a request is flagged
FrequencyThreshold == MaxFrequency

\* the delays of the service's timers
CountResetMs == 60000
SuspiciousTtlMs == 30 * 60 * 1000

\* RATE_LIMIT_RULES of lib/redisRateLimit.ts
GATE_RATE_LIMIT_RULES ==
    [general |-> [windowMs |-> 15 * 60 * 1000, maxRequests |-> 100],
     auth |-> [windowMs |-> 15 * 60 * 1000, maxRequests |-> 5],
     upload |-> [windowMs |-> 60 * 60 * 1000, maxRequests |-> 20],
     ai |-> [windowMs |-> 60 * 60 * 1000, maxRequests |-> 10]]

\* no content-length header
NoLength == -1

\* a request with no header worth a rejection
CleanRequest ==
    [userAgent |-> <<"Mozilla/5.0">>, path |-> <<"/api/plants">>,
     contentType |-> <<>>, contentLength |-> NoLength]

\* the requests of a run: the clean one and those that differ from it in
\* one header or in the path
Requests ==
    {CleanRequest,
     [CleanRequest EXCEPT !.userAgent = <<"Python", "-urllib/3.9">>],
     [CleanRequest EXCEPT !.path = <<"/api/", "../", "etc/passwd">>],
     [CleanRequest EXCEPT !.path = <<"/api/", "..\\", "etc">>],
     [CleanRequest EXCEPT !.contentType = <<"text/", "../../", "plain">>],
     [CleanRequest EXCEPT !.contentLength = maxRequestSize + 1]}

\* String.prototype.includes
Includes(str, piece) ==
    \E i \in 1..Len(str) : str[i] = piece

\* String.prototype.toLowerCase, piece by piece
ToLowerCase(str) ==
    [i \in 1..Len(str) |->
        IF str[i] = "Python" THEN "python"
        ELSE IF str[i] = "Mozilla/5.0" THEN "mozilla/5.0"
        ELSE str[i]]

\* suspiciousAgents
suspiciousAgents ==
    {"python", "curl", "wget", "libwww", "lwp", "scanner", "bot", "crawler"}

\* a protect call that has not been made
IdleProtect ==
    [pc |-> "idle", ip |-> <<>>, request |-> CleanRequest,
     rate |-> [success |-> TRUE, totalCount |-> 0, remainingRequests |-> 0,
               resetTime |-> 0],
     rule |-> "none", result |-> "none", step |-> "none", reason |-> "",
     invoked |-> 0, response |-> "none"]

\* a block list that blocks nobody
BlocksNobody(ips, ip) ==
    FALSE

\* this.suspiciousIPs.has(ip)
IsSuspiciousIP(ips, ip) ==
    ip \in ips

\* checkRequestSize(request).allowed
SizeAllowed(request) ==
    IF request.contentLength # NoLength
    THEN request.contentLength <= maxRequestSize
    ELSE TRUE

\* the number of active requests of an IP
ActiveForIP(active, ip) ==
    Cardinality({id \in DOMAIN active : active[id].ip = ip})

\* a concurrency check that lets one request more through
checkConcurrentRequestsLate(active, ip) ==
    ActiveForIP(active, ip) <= maxConcurrentRequests

\* checkConcurrentRequests(ip)
checkConcurrentRequests(active, ip) ==
    ActiveForIP(active, ip) < maxConcurrentRequests

\* the name of the rule checkRateLimit selects for a path
RuleNameForPath(path) ==
    IF Includes(path, "/auth/") THEN "auth"
    ELSE IF Includes(path, "/upload") THEN "upload"
    ELSE IF Includes(path, "/analyze") \/ Includes(path, "/identify") THEN "ai"
    ELSE "general"

\* the rule checkRateLimit selects for a path
RuleForPath(path) ==
    GATE_RATE_LIMIT_RULES[RuleNameForPath(path)]

\* the count of an IP in requestCounts
CountOf(counts, ip) ==
    IF ip \in DOMAIN counts THEN counts[ip] ELSE 0

\* a detection that finds nothing
detectsNothing(request, ip, counts) ==
    [suspicious |-> FALSE, reason |-> "", counted |-> FALSE, counts |-> counts]

\* detectSuspiciousPatterns(request, ip, userAgent): what it returns, the
\* requestCounts it leaves and whether it has counted the request (and set
\* the timer that takes the count back)
detectSuspiciousPatterns(request, ip, counts) ==
    LET lowerAgent == ToLowerCase(request.userAgent)
        currentCount == CountOf(counts, ip)
        counted == MapSet(counts, ip, currentCount + 1)
    IN  IF \E agent \in suspiciousAgents : Includes(lowerAgent, agent)
        THEN [suspicious |-> TRUE, reason |-> "Suspicious user agent",
              counted |-> FALSE, counts |-> counts]
        ELSE IF currentCount > FrequencyThreshold
        THEN [suspicious |-> TRUE, reason |-> "High request frequency",
              counted |-> TRUE, counts |-> counted]
        ELSE IF request.contentType # <<>> /\ Includes(request.contentType, "../../")
        THEN [suspicious |-> TRUE, reason |-> "Malformed content-type header",
              counted |-> TRUE, counts |-> counted]
        ELSE IF Includes(request.path, "../") \/ Includes(request.path, "..\\")
        THEN [suspicious |-> TRUE, reason |-> "Path traversal attempt",
              counted |-> TRUE, counts |-> counted]
        ELSE [suspicious |-> FALSE, reason |-> "", counted |-> TRUE,
              counts |-> counted]

\* a protect call returns: its request and the limiter's answer are gone
ProtectReturned(call, result, step) ==
    [IdleProtect EXCEPT !.pc = "done", !.ip = call.ip, !.rule = call.rule,
                        !.result = result, !.step = step]

\* protect call id returns
ProtectReturns(id, result, step) ==
    [protects EXCEPT ![id] = ProtectReturned(@, result, step)]

\* protect up to `await this.checkRequestSize(request)`: the enabled check
\* and the check of the suspicious IPs
ProtectBegins(id, ip, request) ==
    /\ protects[id].pc = "idle"
    /\ \A other \in ProtectIds : other < id => protects[other].pc # "idle"
    /\ LET call == [protects[id] EXCEPT !.ip = ip, !.request = request] IN
       protects' = [protects EXCEPT ![id] =
           IF ~enabled
           THEN ProtectReturned(call, "null", "disabled")
           ELSE IF IsSuspiciousIP(suspiciousIPs, ip)
           THEN ProtectReturned(call, "429", "blocked")
           ELSE [call EXCEPT !.pc = "size"]]
    /\ UNCHANGED <<now, limiterVars, lockoutVars, redisVars, authVars, enabled,
                   activeRequests, suspiciousIPs, requestCounts, timers, routeVars, lockVars>>

\* protect from the size check to `await this.checkRateLimit(request, ip)`:
\* the size check, the concurrency check and, in checkRateLimit, the
\* limiter's in-memory check
ProtectChecksLimits(id) ==
    /\ protects[id].pc = "size"
    /\ LET ip == protects[id].ip
           request == protects[id].request
           out == checkRateLimitMemory(fallbackStore["p1"], ip,
                                       RuleForPath(request.path), "dos", now)
       IN  IF ~SizeAllowed(request)
           THEN /\ protects' = ProtectReturns(id, "413", "size")
                /\ UNCHANGED fallbackStore
           ELSE IF ~checkConcurrentRequests(activeRequests, ip)
           THEN /\ protects' = ProtectReturns(id, "429", "concurrency")
                /\ UNCHANGED fallbackStore
           ELSE /\ protects' = [protects EXCEPT ![id] =
                                   [@ EXCEPT !.pc = "rateLimit", !.rate = out.ret,
                                             !.rule = RuleNameForPath(request.path)]]
                /\ fallbackStore' = [fallbackStore EXCEPT !["p1"] = out.store]
    /\ UNCHANGED <<now, limiterVars, lockoutVars, redis, zsets, expireAt, conn, rcalls,
                   authVars, enabled, activeRequests, suspiciousIPs, requestCounts,
                   timers, routeVars, lockVars>>

\* protect from the result of checkRateLimit to its return: the rate limit,
\* the detection of suspicious patterns and the tracking of the request
ProtectFinishes(id) ==
    /\ protects[id].pc = "rateLimit"
    /\ LET ip == protects[id].ip
           request == protects[id].request
           check == detectSuspiciousPatterns(request, ip, requestCounts)
           countTimer == [kind |-> "count", at |-> now + CountResetMs,
                          by |-> id, ip |-> ip]
       IN  IF ~protects[id].rate.success
           THEN /\ protects' = ProtectReturns(id, "429", "rateLimit")
                /\ UNCHANGED <<activeRequests, suspiciousIPs, requestCounts, timers>>
           ELSE IF suspiciousPatternDetection /\ check.suspicious
           THEN /\ protects' = [ProtectReturns(id, "429", "suspicious")
                                    EXCEPT ![id].reason = check.reason]
                /\ requestCounts' = check.counts
                /\ suspiciousIPs' = suspiciousIPs \cup {ip}
                /\ timers' = timers
                      \cup (IF check.counted THEN {countTimer} ELSE {})
                      \cup {[kind |-> "suspicious", at |-> now + SuspiciousTtlMs,
                             by |-> id, ip |-> ip]}
                /\ UNCHANGED activeRequests
           ELSE /\ protects' = ProtectReturns(id, "null", "admitted")
                /\ requestCounts' =
                      IF suspiciousPatternDetection THEN check.counts ELSE requestCounts
                /\ activeRequests' = MapSet(activeRequests, id,
                                            [startTime |-> now, ip |-> ip])
                /\ timers' = timers
                      \cup (IF suspiciousPatternDetection /\ check.counted
                            THEN {countTimer} ELSE {})
                      \cup {[kind |-> "active", at |-> now + requestTimeout,
                             by |-> id, ip |-> ip]}
                /\ UNCHANGED suspiciousIPs
    /\ UNCHANGED <<now, limiterVars, lockoutVars, redisVars, authVars, enabled, routeVars,
                   lockVars>>

\* an error that protect lets through to its caller
ProtectRethrows(call) ==
    ProtectReturned(call, "throws", "error")

\* an error raised inside the try block of protect is caught: protect logs
\* it and returns null
ProtectCaught(call) ==
    ProtectReturned(call, "null", "error")

\* a step of protect throws between `await this.checkRequestSize(request)`
\* and the return: the catch block of protect runs
ProtectFails(id) ==
    /\ protects[id].pc \in {"size", "rateLimit"}
    /\ protects' = [protects EXCEPT ![id] = ProtectCaught(@)]
    /\ UNCHANGED <<now, limiterVars, lockoutVars, redisVars, authVars, enabled,
                   activeRequests, suspiciousIPs, requestCounts, timers, routeVars, lockVars>>

\* the responses of a route handler
HandlerResponses == {"200", "400"}

\* a wrapper that takes no result of protect for a rejection
IsBlockedNever(result) ==
    FALSE

\* `if (protectionResult)` of withDoSProtection
IsBlocked(result) ==
    result # "null"

\* the catch block of withDoSProtection: a generic 500
HandlerFailed(call) ==
    [call EXCEPT !.pc = "returned", !.response = "500"]

\* withDoSProtection after `await dosProtection.protect(request)`: it
\* returns the rejection or calls the handler
WrapperContinues(id) ==
    /\ protects[id].pc = "done"
    /\ LET call == protects[id] IN
       protects' = [protects EXCEPT ![id] =
           IF IsBlocked(call.result)
           THEN [call EXCEPT !.pc = "returned", !.response = call.result]
           ELSE [call EXCEPT !.pc = "handler", !.invoked = call.invoked + 1]]
    /\ UNCHANGED <<now, limiterVars, lockoutVars, redisVars, authVars, enabled,
                   activeRequests, suspiciousIPs, requestCounts, timers, routeVars, lockVars>>

\* `return await handler(request)`: the handler resolves with a response
HandlerReturns(id, response) ==
    /\ protects[id].pc = "handler"
    /\ protects' = [protects EXCEPT ![id] =
                       [@ EXCEPT !.pc = "returned", !.response = response]]
    /\ UNCHANGED <<now, limiterVars, lockoutVars, redisVars, authVars, enabled,
                   activeRequests, suspiciousIPs, requestCounts, timers, routeVars, lockVars>>

\* the handler throws or rejects
HandlerThrows(id) ==
    /\ protects[id].pc = "handler"
    /\ protects' = [protects EXCEPT ![id] = HandlerFailed(@)]
    /\ UNCHANGED <<now, limiterVars, lockoutVars, redisVars, authVars, enabled,
                   activeRequests, suspiciousIPs, requestCounts, timers, routeVars, lockVars>>

\* a setTimeout callback of the service runs
TimerFires(timer) ==
    /\ timer \in timers
    /\ timer.at <= now
    /\ timers' = timers \ {timer}
    /\ activeRequests' = IF timer.kind = "active"
                         THEN MapDeleteAll(activeRequests, {timer.by})
                         ELSE activeRequests
    /\ requestCounts' = IF timer.kind = "count" /\ CountOf(requestCounts, timer.ip) > 0
                        THEN MapSet(requestCounts, timer.ip,
                                    CountOf(requestCounts, timer.ip) - 1)
                        ELSE requestCounts
    /\ suspiciousIPs' = IF timer.kind = "suspicious"
                        THEN suspiciousIPs \ {timer.ip}
                        ELSE suspiciousIPs
    /\ UNCHANGED <<now, limiterVars, lockoutVars, redisVars, authVars, enabled, protects,
                   routeVars, lockVars>>

\* a sweep that takes every record for stale
StaleEarly(record, t) ==
    t - record.startTime >= 0

\* `now - request.startTime > staleThreshold` of cleanupStaleRequests
Stale(record, t) ==
    t - record.startTime > requestTimeout

\* cleanupStaleRequests(), run every minute
CleanupStaleRequests ==
    /\ activeRequests' = MapDeleteAll(activeRequests,
            {id \in DOMAIN activeRequests : Stale(activeRequests[id], now)})
    /\ UNCHANGED <<now, limiterVars, lockoutVars, redisVars, authVars, enabled,
                   suspiciousIPs, requestCounts, timers, protects, routeVars, lockVars>>

(***************************************************************************)
(* lib/csrf.ts: the CSRF check                                             *)
(*                                                                         *)
(* A header value is the sequence of its pieces; NoHeader stands for the   *)
(* null that headers.get returns for a header the request does not have.   *)
(***************************************************************************)
\* request.headers.get(name) of a header that is not there
NoHeader == <<"(null)">>

\* process.env.ALLOWED_ORIGINS is not set
NoEnv == << <<"(undefined)">> >>

\* http://localhost:3000
LocalOrigin == <<"http:", "//", "localhost", ":3000">>

\* the origin of the deployed application
AppOrigin == <<"https:", "//", "plants.example.com">>

\* the values of ALLOWED_ORIGINS: not set, the empty string, and a list
\* with blanks around its entries; a value is the sequence of the strings
\* between its commas
Envs ==
    {NoEnv,
     <<>>,
     << <<" ">> \o AppOrigin \o <<" ">>, <<" ">> \o LocalOrigin >>}

\* String.prototype.trim
Trim(str) ==
    LET first == IF Len(str) > 0 /\ str[1] = " " THEN 2 ELSE 1
        last == IF Len(str) > 0 /\ str[Len(str)] = " " THEN Len(str) - 1 ELSE Len(str)
    IN  SubSeq(str, first, last)

\* getAllowedOrigins()
getAllowedOrigins(e) ==
    IF e # NoEnv /\ e # <<>>
    THEN {Trim(e[i]) : i \in 1..Len(e)}
    ELSE {LocalOrigin,
          <<"http:", "//", "127.0.0.1", ":3000">>,
          <<"https:", "//", "localhost", ":3000">>}

\* request.method of the requests of a run
Methods == {"POST", "post", "Put", "DELETE", "PATCH", "GET", "get", "HEAD", "OPTIONS"}

\* String.prototype.toUpperCase on the methods of a run
ToUpperCase(method) ==
    IF method = "post" THEN "POST"
    ELSE IF method = "Put" THEN "PUT"
    ELSE IF method = "get" THEN "GET"
    ELSE method

\* the Origin headers of a run: none, the empty value, allowed ones, a
\* foreign one, an allowed one in capitals, and the "null" of an opaque origin
Origins ==
    {NoHeader, <<>>, LocalOrigin, AppOrigin,
     <<"https:", "//", "malicious-site.com">>,
     <<"HTTP:", "//", "LOCALHOST", ":3000">>,
     <<"null">>}

\* the Referer headers of a run: none, the empty value, pages of allowed
\* origins, no URL, a foreign page, an allowed origin in capitals, an allowed
\* origin as the user part of a foreign host, and a default port
Referers ==
    {NoHeader, <<>>,
     LocalOrigin \o <<"/dashboard/add-plant">>,
     AppOrigin \o <<"/">>,
     <<"not-a-valid-url">>,
     <<"https:", "//", "malicious-site.com", "/path">>,
     <<"HTTP:", "//", "LOCALHOST", ":3000", "/x">>,
     <<"http:", "//", "localhost", ":3000", "@", "malicious-site.com", "/">>,
     <<"https:", "//", "plants.example.com", ":443", "/page">>}

\* the requests csrfProtection is called with
CsrfRequests == [method : Methods, origin : Origins, referer : Referers]

\* the lower case of a piece of a URL
LowerPiece(piece) ==
    IF piece = "HTTP:" THEN "http:"
    ELSE IF piece = "LOCALHOST" THEN "localhost"
    ELSE piece

\* the port a scheme leaves out of URL.host
DefaultPort(protocol) ==
    IF protocol = "http:" THEN ":80" ELSE ":443"

\* the pieces that are a port
Ports == {":80", ":443", ":3000"}

\* new URL(str): whether it parses, and its protocol and host
ParseURL(str) ==
    IF Len(str) >= 3 /\ LowerPiece(str[1]) \in {"http:", "https:"} /\ str[2] = "//"
    THEN LET protocol == LowerPiece(str[1])
             ats == {i \in 3..Len(str) : str[i] = "@"}
             start == IF ats = {} THEN 3
                      ELSE 1 + CHOOSE i \in ats : \A j \in ats : j <= i
             port == IF start < Len(str) /\ str[start + 1] \in Ports
                     THEN str[start + 1] ELSE ""
         IN  IF start > Len(str)
             THEN [ok |-> FALSE, protocol |-> "", host |-> <<>>]
             ELSE [ok |-> TRUE, protocol |-> protocol,
                   host |-> IF port = "" \/ port = DefaultPort(protocol)
                            THEN <<LowerPiece(str[start])>>
                            ELSE <<LowerPiece(str[start]), port>>]
    ELSE [ok |-> FALSE, protocol |-> "", host |-> <<>>]

\* a refererOrigin cut from the front of the header without parsing it
RefererOriginPrefix(url, referer) ==
    SubSeq(referer, 1, 4)

\* `${refererUrl.protocol}//${refererUrl.host}`
RefererOrigin(url, referer) ==
    <<url.protocol, "//">> \o url.host

\* a header value that is not null and not the empty string
Truthy(header) ==
    header # NoHeader /\ header # <<>>

\* a check that accepts a request when either header is allowed
validateCSRFEither(request, e) ==
    \/ request.origin \in getAllowedOrigins(e)
    \/ /\ Truthy(request.referer)
       /\ ParseURL(request.referer).ok
       /\ RefererOrigin(ParseURL(request.referer), request.referer)
             \in getAllowedOrigins(e)

\* validateCSRF(request)
validateCSRF(request, e) ==
    LET allowedOrigins == getAllowedOrigins(e) IN
    IF Truthy(request.origin)
    THEN request.origin \in allowedOrigins
    ELSE IF Truthy(request.referer)
    THEN LET refererUrl == ParseURL(request.referer) IN
         IF refererUrl.ok
         THEN RefererOrigin(refererUrl, request.referer) \in allowedOrigins
         ELSE FALSE
    ELSE FALSE

\* a check that takes every method for a state-changing one
IsStateChangingAlways(method) ==
    TRUE

\* ['POST', 'PUT', 'DELETE', 'PATCH'].includes(method)
IsStateChanging(method) ==
    ToUpperCase(method) \in {"POST", "PUT", "DELETE", "PATCH"}

\* the null csrfProtection returns for a request it lets through
NoResponse == [status |-> 0, code |-> ""]

\* the response of csrfProtection for a request that fails the check
CsrfRejection == [status |-> 403, code |-> "CSRF_VALIDATION_FAILED"]

\* csrfProtection(request)
csrfProtection(request, e) ==
    IF ~IsStateChanging(request.method) THEN NoResponse
    ELSE IF ~validateCSRF(request, e) THEN CsrfRejection
    ELSE NoResponse

\* no csrfProtection call yet
NoCsrfCall ==
    [n |-> 0, request |-> [method |-> "", origin |-> NoHeader, referer |-> NoHeader],
     response |-> NoResponse]

\* a caller invokes csrfProtection(request)
CsrfProtection(request) ==
    /\ lastCsrf' = [n |-> 1, request |-> request,
                    response |-> csrfProtection(request, env)]
    /\ UNCHANGED <<now, limiterVars, lockoutVars, redisVars, authVars, dosVars, env,
                   routeCalls, hits, lockVars>>

(***************************************************************************)
(* app/api: the route handlers                                             *)
(***************************************************************************)
RouteIds == 1..MaxRouteCalls

\* POST of api/auth/register, of api/analyze and of api/identify
Routes == {"register", "analyze", "identify"}

\* the rule each route passes to rateLimitMiddleware
RouteRule(route) ==
    IF route = "register" THEN "REGISTRATION"
    ELSE IF route = "analyze" THEN "AI_ANALYZE"
    ELSE "AI_IDENTIFY"

\* session.user.id of the signed-in users
UserIds == {<<"u1">>}

\* getAuthenticatedSession() found no session
NoSession == <<>>

\* getClientIP(request): the client sets the header it is read from
RouteIPs == {<<"1.2.3.4">>, <<"u1">>}

\* the requests the routes are called with
RouteRequests ==
    [method : {"POST"},
     origin : {LocalOrigin, <<"https:", "//", "malicious-site.com">>},
     referer : {NoHeader},
     ip : RouteIPs]

\* what the limiter counts under: a type, a rule and an identifier
Counted == [type : Types, rule : {RouteRule(route) : route \in Routes},
            identifier : UserIds \cup RouteIPs]

\* a route handler call that has not been made
IdleRoute ==
    [pc |-> "idle", route |-> "", request |-> [method |-> "POST", origin |-> NoHeader,
                                              referer |-> NoHeader, ip |-> <<>>],
     result |-> "none", checks |-> <<>>]

\* rateLimitMiddleware(ruleName, identifier, type) at time t on store
rateLimitMiddleware(store, ruleName, identifier, type, t) ==
    LET out == isRateLimited(store, getRateLimitKey(type, identifier, ruleName),
                             RATE_LIMIT_RULES[ruleName], t)
    IN  [store |-> out.store, limited |-> out.ret.limited]

\* the calls counted once one more is made for type, rule and identifier
Hit(counted, type, ruleName, identifier) ==
    [counted EXCEPT ![[type |-> type, rule |-> ruleName, identifier |-> identifier]]
                        = @ + 1]

\* one check of a route handler: which, for whom, whether it turned the
\* request down, and the calls counted for that type, rule and identifier
Check(name, identifier, failed, counted) ==
    [check |-> name, identifier |-> identifier, failed |-> failed, hits |-> counted]

\* POST of api/auth/register up to `await request.json()`
RegisterPost(id, request) ==
    /\ routeCalls[id].pc = "idle"
    /\ \A other \in RouteIds : other < id => routeCalls[other].pc # "idle"
    /\ LET clientIP == request.ip
           rateLimitResult == rateLimitMiddleware(rateLimitStore, "REGISTRATION",
                                                  clientIP, "ip", now)
           counted == Hit(hits, "ip", "REGISTRATION", clientIP)
           ipCheck == Check("ip", clientIP, rateLimitResult.limited,
                            counted[[type |-> "ip", rule |-> "REGISTRATION",
                                     identifier |-> clientIP]])
           csrfError == csrfProtection(request, env)
           call == [routeCalls[id] EXCEPT !.route = "register", !.request = request]
       IN  /\ rateLimitStore' = rateLimitResult.store
           /\ hits' = counted
           /\ routeCalls' = [routeCalls EXCEPT ![id] =
                 IF rateLimitResult.limited
                 THEN [call EXCEPT !.pc = "returned", !.result = "429",
                                   !.checks = <<ipCheck>>]
                 ELSE IF csrfError # NoResponse
                 THEN [call EXCEPT !.pc = "returned", !.result = "403",
                                   !.checks = <<ipCheck,
                                                Check("csrf", <<>>, TRUE, 0)>>]
                 ELSE [call EXCEPT !.pc = "business",
                                   !.checks = <<ipCheck,
                                                Check("csrf", <<>>, FALSE, 0)>>]]
    /\ UNCHANGED <<now, rule, calls, lastMiddleware, lockoutVars, redisVars, authVars,
                   dosVars, env, lastCsrf, lockVars>>

\* POST of api/analyze or api/identify up to `await getAuthenticatedSession()`
AiPostBegins(id, route, request) ==
    /\ routeCalls[id].pc = "idle"
    /\ \A other \in RouteIds : other < id => routeCalls[other].pc # "idle"
    /\ LET csrfError == csrfProtection(request, env)
           call == [routeCalls[id] EXCEPT !.route = route, !.request = request]
       IN  routeCalls' = [routeCalls EXCEPT ![id] =
                 IF csrfError # NoResponse
                 THEN [call EXCEPT !.pc = "returned", !.result = "403",
                                   !.checks = <<Check("csrf", <<>>, TRUE, 0)>>]
                 ELSE [call EXCEPT !.pc = "session",
                                   !.checks = <<Check("csrf", <<>>, FALSE, 0)>>]]
    /\ UNCHANGED <<now, limiterVars, lockoutVars, redisVars, authVars, dosVars, env,
                   lastCsrf, hits, lockVars>>

\* POST of api/analyze or api/identify from the session to
\* `await request.json()`: the check of the user and the check of the IP
AiPostChecks(id, session) ==
    /\ routeCalls[id].pc = "session"
    /\ LET call == routeCalls[id]
           ruleName == RouteRule(call.route)
           clientIP == call.request.ip
           userRateLimit == rateLimitMiddleware(rateLimitStore, ruleName, session,
                                                "user", now)
           userCounted == Hit(hits, "user", ruleName, session)
           userCheck == Check("user", session, userRateLimit.limited,
                              userCounted[[type |-> "user", rule |-> ruleName,
                                           identifier |-> session]])
           ipRateLimit == rateLimitMiddleware(userRateLimit.store, ruleName, clientIP,
                                              "ip", now)
           ipCounted == Hit(userCounted, "ip", ruleName, clientIP)
           ipCheck == Check("ip", clientIP, ipRateLimit.limited,
                            ipCounted[[type |-> "ip", rule |-> ruleName,
                                       identifier |-> clientIP]])
       IN  IF session = NoSession
           THEN /\ routeCalls' = [routeCalls EXCEPT ![id] =
                      [call EXCEPT !.pc = "returned", !.result = "401"]]
                /\ UNCHANGED <<rateLimitStore, hits>>
           ELSE IF userRateLimit.limited
           THEN /\ routeCalls' = [routeCalls EXCEPT ![id] =
                      [call EXCEPT !.pc = "returned", !.result = "429",
                                   !.checks = Append(@, userCheck)]]
                /\ rateLimitStore' = userRateLimit.store
                /\ hits' = userCounted
           ELSE IF ipRateLimit.limited
           THEN /\ routeCalls' = [routeCalls EXCEPT ![id] =
                      [call EXCEPT !.pc = "returned", !.result = "429",
                                   !.checks = @ \o <<userCheck, ipCheck>>]]
                /\ rateLimitStore' = ipRateLimit.store
                /\ hits' = ipCounted
           ELSE /\ routeCalls' = [routeCalls EXCEPT ![id] =
                      [call EXCEPT !.pc = "business",
                                   !.checks = @ \o <<userCheck, ipCheck>>]]
                /\ rateLimitStore' = ipRateLimit.store
                /\ hits' = ipCounted
    /\ UNCHANGED <<now, rule, calls, lastMiddleware, lockoutVars, redisVars, authVars,
                   dosVars, env, lastCsrf, lockVars>>

(***************************************************************************)
(* The clock                                                               *)
(***************************************************************************)
\* Date.now() advances by one millisecond
Tick ==
    /\ now % failureWindowMs < MaxTime
    /\ now' = now + 1
    /\ UNCHANGED <<limiterVars, lockoutVars, redisVars, authVars, dosVars, routeVars, lockVars>>

\* Date.now() advances by one millisecond, for the lockout
TickJitter ==
    /\ now % failureWindowMs < MaxJitter
    /\ now' = now + 1
    /\ UNCHANGED <<limiterVars, lockoutVars, redisVars, authVars, dosVars, routeVars, lockVars>>

\* Date.now() advances by one millisecond, for the Redis limiter
TickRedis ==
    /\ now % 1000 < MaxRedisTime
    /\ now' = now + 1
    /\ UNCHANGED <<limiterVars, lockoutVars, redisVars, authVars, dosVars, routeVars, lockVars>>

\* Date.now() advances by a second, the unit of a Redis TTL
TickSecond ==
    /\ now \div 1000 < MaxSeconds
    /\ now' = now + 1000
    /\ UNCHANGED <<limiterVars, lockoutVars, redisVars, authVars, dosVars, routeVars, lockVars>>

\* Date.now() advances by a failure window
TickWindow ==
    /\ (now % CleanupAgeMs) \div failureWindowMs < MaxWindows
    /\ now' = now + failureWindowMs
    /\ UNCHANGED <<limiterVars, lockoutVars, redisVars, authVars, dosVars, routeVars, lockVars>>

\* Date.now() advances by a request timeout, once the timers due run
TickGate ==
    /\ (now % SuspiciousTtlMs) \div requestTimeout < MaxGateTicks
    /\ \A timer \in timers : timer.at >= now + requestTimeout
    /\ now' = now + requestTimeout
    /\ UNCHANGED <<limiterVars, lockoutVars, redisVars, authVars, dosVars, routeVars, lockVars>>

\* Date.now() advances to the instant the next timer is due; no call of
\* protect stays between two of its awaits for that long
TickToTimer ==
    /\ timers # {}
    /\ \A id \in ProtectIds : protects[id].pc \notin {"size", "rateLimit"}
    /\ \A timer \in timers : timer.at > now
    /\ \E timer \in timers :
          /\ \A other \in timers : timer.at <= other.at
          /\ now' = timer.at
    /\ UNCHANGED <<limiterVars, lockoutVars, redisVars, authVars, dosVars, routeVars, lockVars>>

\* Date.now() advances by the age of the sweep
TickDay ==
    /\ now \div CleanupAgeMs < MaxDays
    /\ now' = now + CleanupAgeMs
    /\ UNCHANGED <<limiterVars, lockoutVars, redisVars, authVars, dosVars, routeVars, lockVars>>

(***************************************************************************)
(* Specifications                                                          *)
(***************************************************************************)
\* the rule of the isRateLimited tests, for the runs that pass no rule
TestRule == [windowMs |-> MaxWindow, maxRequests |-> MaxReq, blockDurationMs |-> MaxBlock]

\* the stores and the calls of a process that has served no request
EmptyStores ==
    /\ rateLimitStore = <<>>
    /\ calls = [k \in Keys |-> <<>>]
    /\ failures = [e \in Emails |-> NoCalls]
    /\ lastLockout = [op |-> "none", email |-> "", at |-> 0, ret |-> [locked |-> FALSE],
                      expired |-> FALSE, cleared |-> "none"]
    /\ lastMiddleware = [n |-> 0, type |-> "", rule |-> "", identifier |-> <<>>,
                         limited |-> FALSE]
    /\ zsets = <<>>
    /\ expireAt = <<>>
    /\ conn = [p \in Procs |-> <<>>]
    /\ rcalls = [c \in CallIds \cup OutageIds |-> IdleCall]
    /\ authCalls = [a \in AuthIds |-> IdleAuth]
    /\ activeRequests = <<>>
    /\ suspiciousIPs = {}
    /\ requestCounts = <<>>
    /\ timers = {}
    /\ lockStore = <<>>
    /\ lockLog = [e \in Emails |-> <<>>]
    /\ protects = [id \in ProtectIds |-> IdleProtect]
    /\ lastCsrf = NoCsrfCall
    /\ routeCalls = [id \in RouteIds |-> IdleRoute]

InitStores ==
    /\ now = 1
    /\ EmptyStores

\* isRateLimited called directly with any rule, with the sweep
InitLimiter ==
    /\ InitStores
    /\ env = NoEnv
    /\ hits = [c \in Counted |-> 0]
    /\ enabled = FALSE
    /\ fallbackStore = [p \in Procs |-> <<>>]
    /\ accountLockoutStore = <<>>
    /\ users = [e \in Emails |-> NoUser]
    /\ redis = [p \in Procs |-> FALSE]
    /\ rule \in Rules

NextLimiter ==
    \/ \E key \in Keys : IsRateLimited(key)
    \/ CleanupExpiredEntries
    \/ Tick
    \/ TickDay

SpecLimiter == InitLimiter /\ [][NextLimiter]_vars

\* rateLimitMiddleware on the routes' rules, with the sweep
InitMiddleware ==
    /\ InitStores
    /\ env = NoEnv
    /\ hits = [c \in Counted |-> 0]
    /\ enabled = FALSE
    /\ fallbackStore = [p \in Procs |-> <<>>]
    /\ accountLockoutStore = <<>>
    /\ users = [e \in Emails |-> NoUser]
    /\ redis = [p \in Procs |-> FALSE]
    /\ rule = TestRule

NextMiddleware ==
    \/ \E ruleName \in RuleNames, identifier \in Identifiers, type \in Types :
          RateLimitMiddleware(ruleName, identifier, type)
    \/ CleanupExpiredEntries
    \/ TickWindow

SpecMiddleware == InitMiddleware /\ [][NextMiddleware]_vars

\* the account lockout, with the sweep
InitLockout ==
    /\ InitStores
    /\ env = NoEnv
    /\ hits = [c \in Counted |-> 0]
    /\ enabled = FALSE
    /\ fallbackStore = [p \in Procs |-> <<>>]
    /\ accountLockoutStore = <<>>
    /\ users = [e \in Emails |-> NoUser]
    /\ redis = [p \in Procs |-> FALSE]
    /\ rule = TestRule

NextLockout ==
    \/ \E email \in Emails : RecordFailedLogin(email)
    \/ \E email \in Emails : IsAccountLocked(email)
    \/ \E email \in Emails : ClearFailedLogins(email)
    \/ CleanupExpiredEntries
    \/ TickJitter
    \/ TickWindow
    \/ TickDay

SpecLockout == InitLockout /\ [][NextLockout]_vars

\* failed attempts recorded for an identity just before the run starts
PriorFailures == {0, maxFailedAttempts - 1}

\* the store after n failed attempts on email at time t
FailedBefore(n, email, t) ==
    IF n = 0 THEN <<>>
    ELSE MapSet(<<>>, email,
           [failedAttempts |-> n, lastFailure |-> t, lockedUntil |-> 0])

\* authorize calls on accounts that exist, with or without a password, or do
\* not, after no or four failed attempts on the identity
InitAuth ==
    /\ InitStores
    /\ env = NoEnv
    /\ hits = [c \in Counted |-> 0]
    /\ enabled = FALSE
    /\ fallbackStore = [p \in Procs |-> <<>>]
    /\ redis = [p \in Procs |-> FALSE]
    /\ rule = TestRule
    /\ users \in [Emails -> UserRows]
    /\ \E n \in PriorFailures, email \in Emails :
          accountLockoutStore = FailedBefore(n, email, now)

NextAuth ==
    \/ \E a \in AuthIds, email \in AuthEmails, password \in Passwords :
          AuthorizeBegins(a, email, password)
    \/ \E a \in AuthIds : AuthorizeFindsUser(a)
    \/ \E a \in AuthIds : AuthorizeFindFails(a)
    \/ \E a \in AuthIds : AuthorizeCompares(a)
    \/ TickWindow

SpecAuth == InitAuth /\ [][NextAuth]_vars

\* the in-memory record of the limiter for an IP that has used up the
\* general rule at time t
QuotaUsed(ip, t) ==
    MapSet(<<>>, RedisKey("dos", ip),
           [count |-> GATE_RATE_LIMIT_RULES.general.maxRequests,
            resetTime |-> t + GATE_RATE_LIMIT_RULES.general.windowMs])

\* the gate of one server process started without REDIS_URL, in production
\* or not; one IP may have used up its quota before. The protect calls of
\* SpecGate run within one instant, before any timer is due; those of
\* SpecGateTimed run with the clock, the timers and the sweep.
InitGate ==
    /\ InitStores
    /\ env = NoEnv
    /\ hits = [c \in Counted |-> 0]
    /\ accountLockoutStore = <<>>
    /\ users = [e \in Emails |-> NoUser]
    /\ rule = TestRule
    /\ redis = [p \in Procs |-> FALSE]
    /\ enabled \in BOOLEAN
    /\ \E used \in {<<>>, QuotaUsed(<<"1.2.3.4">>, now)} :
          fallbackStore = [p \in Procs |-> IF p = "p1" THEN used ELSE <<>>]

NextGate ==
    \/ \E id \in ProtectIds, ip \in IPs, request \in Requests :
          ProtectBegins(id, ip, request)
    \/ \E id \in ProtectIds : ProtectChecksLimits(id)
    \/ \E id \in ProtectIds : ProtectFinishes(id)

SpecGate == InitGate /\ [][NextGate]_vars

\* the requests of a timed run
TimedRequests ==
    {CleanRequest, [CleanRequest EXCEPT !.userAgent = <<"Python", "-urllib/3.9">>]}

NextGateTimed ==
    \/ \E id \in ProtectIds, ip \in IPs, request \in TimedRequests :
          ProtectBegins(id, ip, request)
    \/ \E id \in ProtectIds : ProtectChecksLimits(id)
    \/ \E id \in ProtectIds : ProtectFinishes(id)
    \/ \E timer \in timers : TimerFires(timer)
    \/ CleanupStaleRequests
    \/ TickGate
    \/ TickToTimer

SpecGateTimed == InitGate /\ [][NextGateTimed]_vars

\* the requests of a run on two path classes: a general path and an auth path
PathRequests ==
    {CleanRequest, [CleanRequest EXCEPT !.path = <<"/api", "/auth/", "signin">>]}

\* the gate of one server process started without REDIS_URL, enabled, with
\* an empty limiter
InitGatePaths ==
    /\ InitStores
    /\ env = NoEnv
    /\ hits = [c \in Counted |-> 0]
    /\ accountLockoutStore = <<>>
    /\ users = [e \in Emails |-> NoUser]
    /\ rule = TestRule
    /\ redis = [p \in Procs |-> FALSE]
    /\ enabled = TRUE
    /\ fallbackStore = [p \in Procs |-> <<>>]

\* protect calls of one IP on general and auth paths, within one instant
NextGatePaths ==
    \/ \E id \in ProtectIds, request \in PathRequests :
          ProtectBegins(id, <<"1.2.3.4">>, request)
    \/ \E id \in ProtectIds : ProtectChecksLimits(id)
    \/ \E id \in ProtectIds : ProtectFinishes(id)

SpecGatePaths == InitGatePaths /\ [][NextGatePaths]_vars

\* the lockout of the Redis limiter of a process started without REDIS_URL
InitLimiterLocks ==
    /\ now = Epoch
    /\ EmptyStores
    /\ env = NoEnv
    /\ hits = [c \in Counted |-> 0]
    /\ enabled = FALSE
    /\ fallbackStore = [p \in Procs |-> <<>>]
    /\ accountLockoutStore = <<>>
    /\ users = [e \in Emails |-> NoUser]
    /\ redis = [p \in Procs |-> FALSE]
    /\ rule = TestRule

\* the lockout functions of the Redis limiter, with its cleanup
NextLimiterLocks ==
    \/ \E email \in Emails : LimiterRecordFailedLogin(email)
    \/ \E email \in Emails : LimiterIsAccountLocked(email)
    \/ \E email \in Emails : LimiterClearFailedLogins(email)
    \/ LimiterCleanup
    \/ TickJitter
    \/ TickWindow

SpecLimiterLocks == InitLimiterLocks /\ [][NextLimiterLocks]_vars

\* both modules of a process started without REDIS_URL: the calls that fill
\* the four in-memory stores, all made as the run starts, then the two
\* sweeps and the clock
NextSweeps ==
    \/ now = Epoch /\ \E key \in Keys : IsRateLimited(key)
    \/ now = Epoch /\ \E email \in Emails : RecordFailedLogin(email)
    \/ now = Epoch /\ \E c \in CallIds, identifier \in RedisIdentifiers, prefix \in Prefixes :
          CheckRateLimit(c, "p1", identifier, TestRule, prefix)
    \/ now = Epoch /\ \E email \in Emails : LimiterRecordFailedLogin(email)
    \/ CleanupExpiredEntries
    \/ LimiterCleanup
    \/ TickJitter
    \/ TickWindow
    \/ TickDay

SpecSweeps == InitLimiterLocks /\ [][NextSweeps]_vars

\* the withDoSProtection calls of a run
WrapperIds == 1..MaxWrappers

\* the requests of a run of the wrapper
WrapperRequests ==
    {CleanRequest, [CleanRequest EXCEPT !.contentLength = maxRequestSize + 1]}

\* withDoSProtection calls with their handlers, the faults inside protect,
\* the clock, the timers and the sweep
NextWrapper ==
    \/ \E id \in WrapperIds, ip \in IPs, request \in WrapperRequests :
          ProtectBegins(id, ip, request)
    \/ \E id \in WrapperIds : ProtectChecksLimits(id)
    \/ \E id \in WrapperIds : ProtectFinishes(id)
    \/ \E id \in WrapperIds : ProtectFails(id)
    \/ \E id \in WrapperIds : WrapperContinues(id)
    \/ \E id \in WrapperIds, response \in HandlerResponses :
          HandlerReturns(id, response)
    \/ \E id \in WrapperIds : HandlerThrows(id)
    \/ \E timer \in timers : TimerFires(timer)
    \/ CleanupStaleRequests
    \/ TickGate
    \/ TickToTimer

SpecWrapper == InitGate /\ [][NextWrapper]_vars

\* csrfProtection called with any request, under each value of ALLOWED_ORIGINS
InitCsrf ==
    /\ InitStores
    /\ env \in Envs
    /\ hits = [c \in Counted |-> 0]
    /\ enabled = FALSE
    /\ fallbackStore = [p \in Procs |-> <<>>]
    /\ accountLockoutStore = <<>>
    /\ users = [e \in Emails |-> NoUser]
    /\ redis = [p \in Procs |-> FALSE]
    /\ rule = TestRule

NextCsrf ==
    \E request \in CsrfRequests : CsrfProtection(request)

SpecCsrf == InitCsrf /\ [][NextCsrf]_vars

\* what may have used up its quota before a run of the routes: nothing, the
\* user or an IP
UsedUp ==
    {[type |-> "none", rule |-> "", identifier |-> <<>>]}
    \cup [type : {"user"}, rule : {"AI_ANALYZE"}, identifier : UserIds]
    \cup [type : {"ip"}, rule : {"AI_ANALYZE", "REGISTRATION"}, identifier : RouteIPs]

\* the entry of a key whose window began at time t and is used up
WindowUsedUp(ruleName, t) ==
    [count |-> RATE_LIMIT_RULES[ruleName].maxRequests, windowStart |-> t,
     blockedUntil |-> 0]

\* the route handlers of one server process within one window of the limiter
InitRoutes ==
    /\ now = 1
    /\ calls = [k \in Keys |-> <<>>]
    /\ failures = [e \in Emails |-> NoCalls]
    /\ lastLockout = [op |-> "none", email |-> "", at |-> 0, ret |-> [locked |-> FALSE],
                      expired |-> FALSE, cleared |-> "none"]
    /\ lastMiddleware = [n |-> 0, type |-> "", rule |-> "", identifier |-> <<>>,
                         limited |-> FALSE]
    /\ zsets = <<>>
    /\ expireAt = <<>>
    /\ conn = [p \in Procs |-> <<>>]
    /\ rcalls = [c \in CallIds \cup OutageIds |-> IdleCall]
    /\ authCalls = [a \in AuthIds |-> IdleAuth]
    /\ activeRequests = <<>>
    /\ suspiciousIPs = {}
    /\ requestCounts = <<>>
    /\ timers = {}
    /\ lockStore = <<>>
    /\ lockLog = [e \in Emails |-> <<>>]
    /\ protects = [id \in ProtectIds |-> IdleProtect]
    /\ lastCsrf = NoCsrfCall
    /\ routeCalls = [id \in RouteIds |-> IdleRoute]
    /\ env = NoEnv
    /\ enabled = FALSE
    /\ fallbackStore = [p \in Procs |-> <<>>]
    /\ accountLockoutStore = <<>>
    /\ users = [e \in Emails |-> NoUser]
    /\ redis = [p \in Procs |-> FALSE]
    /\ rule = TestRule
    /\ \E used \in UsedUp :
          /\ rateLimitStore =
                IF used.type = "none" THEN <<>>
                ELSE MapSet(<<>>, getRateLimitKey(used.type, used.identifier, used.rule),
                            WindowUsedUp(used.rule, now))
          /\ hits = [c \in Counted |->
                        IF c = used THEN RATE_LIMIT_RULES[used.rule].maxRequests ELSE 0]

NextRoutes ==
    \/ \E id \in RouteIds, request \in RouteRequests : RegisterPost(id, request)
    \/ \E id \in RouteIds, route \in {"analyze", "identify"}, request \in RouteRequests :
          AiPostBegins(id, route, request)
    \/ \E id \in RouteIds, session \in UserIds \cup {NoSession} : AiPostChecks(id, session)

SpecRoutes == InitRoutes /\ [][NextRoutes]_vars

\* checkRateLimit of the server processes, started with REDIS_URL, against a
\* Redis server that answers every pipeline and executes it with no command
\* of another connection in between (the best the code can meet: a pipeline
\* is no transaction); every call passes the same rule (the processes are
\* interchangeable: the first call is made on p1). The clock runs for
\* MaxRedisTime milliseconds, less than any TTL.
InitRedisHealthy ==
    /\ InitStores
    /\ env = NoEnv
    /\ hits = [c \in Counted |-> 0]
    /\ enabled = FALSE
    /\ fallbackStore = [p \in Procs |-> <<>>]
    /\ accountLockoutStore = <<>>
    /\ users = [e \in Emails |-> NoUser]
    /\ rule \in RedisRules
    /\ redis = [p \in Procs |-> TRUE]

NextRedisHealthy ==
    \/ \E c \in CallIds, p \in Procs, identifier \in RedisIdentifiers, prefix \in Prefixes :
          /\ c = 1 => p = "p1"
          /\ CheckRateLimit(c, p, identifier, rule, prefix)
    \/ \E p \in Procs : RedisExecPipeline(p)
    \/ \E c \in CallIds : PipelineResolves(c)
    \/ TickRedis

SpecRedisHealthy == InitRedisHealthy /\ [][NextRedisHealthy]_vars

\* checkRateLimit of one server process, started with or without REDIS_URL,
\* against a Redis server that executes command by command and whose
\* pipelines may fail or stay unanswered; the
\* calls pass any of the rules, and the clock advances by seconds
InitRedis ==
    /\ InitStores
    /\ env = NoEnv
    /\ hits = [c \in Counted |-> 0]
    /\ enabled = FALSE
    /\ fallbackStore = [p \in Procs |-> <<>>]
    /\ accountLockoutStore = <<>>
    /\ users = [e \in Emails |-> NoUser]
    /\ rule = TestRule
    /\ \E configured \in BOOLEAN : redis = [p \in Procs |-> configured]

NextRedis ==
    \/ \E c \in 1..MaxFaultCalls, identifier \in RedisIdentifiers, r \in RedisRules,
          prefix \in Prefixes :
          CheckRateLimit(c, "p1", identifier, r, prefix)
    \/ RedisExec("p1")
    \/ \E c \in CallIds : PipelineResolves(c)
    \/ \E c \in CallIds, fault \in {"rejected", "no results"} : PipelineFails(c, fault)
    \/ \E key \in DOMAIN expireAt : RedisKeyExpires(key)
    \/ TickSecond

SpecRedis == InitRedis /\ [][NextRedis]_vars

\* the rule of the runs with outages
OutageRule == [windowMs |-> MaxWindow, maxRequests |-> MaxReq]

\* one process with REDIS_URL whose store fails and recovers at any time;
\* the calls are made one after the other and each returns within the
\* millisecond it was made in, each pipeline is executed without a command
\* of another connection in between, and the run lasts less than the second
\* after which a key of the store expires
InitOutage ==
    /\ InitStores
    /\ env = NoEnv
    /\ hits = [c \in Counted |-> 0]
    /\ enabled = FALSE
    /\ fallbackStore = [p \in Procs |-> <<>>]
    /\ accountLockoutStore = <<>>
    /\ users = [e \in Emails |-> NoUser]
    /\ rule = OutageRule
    /\ redis = [p \in Procs |-> TRUE]

NextOutage ==
    \/ /\ \A d \in OutageIds : rcalls[d].pc # "awaiting"
       /\ \E c \in OutageIds, identifier \in RedisIdentifiers, prefix \in Prefixes :
             CheckRateLimit(c, "p1", identifier, OutageRule, prefix)
    \/ RedisExecPipeline("p1")
    \/ \E c \in OutageIds : PipelineResolves(c)
    \/ \E c \in OutageIds, fault \in {"rejected", "no results"} : PipelineFails(c, fault)
    \/ (\A d \in OutageIds : rcalls[d].pc # "awaiting") /\ Tick

SpecOutage == InitOutage /\ [][NextOutage]_vars

\* the same, where a call whose pipeline has been answered is resumed: the
\* event loop runs the continuation of a settled promise; nothing makes the
\* store answer
SpecRedisLive == SpecRedis /\ \A c \in CallIds : WF_vars(PipelineResolves(c))

(***************************************************************************)
(* The in-memory limiter: claims                                           *)
(***************************************************************************)
\* the calls up to call i of key that fell into the window left by call i
WindowCalls(key, i) ==
    {j \in 1..i : calls[key][j].entry.windowStart = calls[key][i].entry.windowStart}

\* call i of key incremented the count past maxRequests
PushedOver(key, i) ==
    /\ i > 1
    /\ calls[key][i].entry.count > rule.maxRequests
    /\ calls[key][i].entry.count = calls[key][i - 1].entry.count + 1
    /\ calls[key][i].entry.windowStart = calls[key][i - 1].entry.windowStart

\* C1: for a fresh key and a rule with maxRequests = N, the first N calls made
\* within one window (no later than windowMs after the first) return
\* limited = false with remaining N-1, N-2, ..., 0 in that order, and the
\* (N+1)th call within that window returns limited = true.
C1_FirstCallsCountDown ==
    \A key \in Keys : \A i \in 1..Len(calls[key]) :
        calls[key][i].at - calls[key][1].at <= rule.windowMs =>
            /\ i <= rule.maxRequests =>
                 calls[key][i].ret = [limited |-> FALSE, remaining |-> rule.maxRequests - i]
            /\ i = rule.maxRequests + 1 => calls[key][i].ret.limited

\* the quota of a rule with N >= 2 is used up and overrun in one window while time passes
C1_Witness ==
    \E key \in Keys :
        /\ rule.maxRequests >= 2
        /\ Len(calls[key]) = rule.maxRequests + 1
        /\ calls[key][Len(calls[key])].at - calls[key][1].at = rule.windowMs
        /\ calls[key][Len(calls[key])].ret.limited
        /\ ~calls[key][rule.maxRequests].ret.limited

\* C2: when the window of a key has received exactly maxRequests calls and none
\* was denied, the first call made more than windowMs after the start of that
\* window returns limited = false with remaining = maxRequests - 1 and starts
\* a new window at the time of that call.
C2_WindowReset ==
    \A key \in Keys : \A i \in 2..Len(calls[key]) :
        LET inWindow == WindowCalls(key, i - 1) IN
        ( /\ Cardinality(inWindow) = rule.maxRequests
          /\ \A j \in inWindow : ~calls[key][j].ret.limited
          /\ calls[key][i].at - calls[key][i - 1].entry.windowStart > rule.windowMs )
        => /\ calls[key][i].ret = [limited |-> FALSE, remaining |-> rule.maxRequests - 1]
           /\ calls[key][i].entry.windowStart = calls[key][i].at
           /\ calls[key][i].entry.count = 1

\* a quota of 2 is used up without a denial and the next call comes just after the window
C2_Witness ==
    \E key \in Keys :
        /\ rule.maxRequests = 2
        /\ Len(calls[key]) = 3
        /\ calls[key][2].entry.count = 2
        /\ calls[key][3].at = calls[key][1].at + rule.windowMs + 1
        /\ ~calls[key][3].ret.limited

\* C3: when a call pushes the count of a key above maxRequests under a rule
\* with a blockDurationMs, blockedUntil becomes the time of that call plus
\* blockDurationMs; every later call for the key made before that blockedUntil
\* is denied with resetTime equal to it, also after the counting window has
\* expired, and leaves blockedUntil where it was.
C3_BlockHolds ==
    \A key \in Keys : \A i \in 1..Len(calls[key]) :
        (PushedOver(key, i) /\ rule.blockDurationMs # 0) =>
            LET until == calls[key][i].at + rule.blockDurationMs IN
            /\ calls[key][i].entry.blockedUntil = until
            /\ \A j \in (i + 1)..Len(calls[key]) :
                 calls[key][j].at < until =>
                    /\ calls[key][j].ret = [limited |-> TRUE, resetTime |-> until]
                    /\ calls[key][j].entry.blockedUntil = until

\* a call is denied by a block after the counting window of the key has expired
C3_Witness ==
    \E key \in Keys : \E i \in 1..Len(calls[key]) : \E j \in 1..Len(calls[key]) :
        /\ PushedOver(key, i)
        /\ rule.blockDurationMs # 0
        /\ j > i
        /\ calls[key][j].at < calls[key][i].at + rule.blockDurationMs
        /\ calls[key][j].at - calls[key][j].entry.windowStart > rule.windowMs
        /\ calls[key][j].ret.limited

\* what the store holds for the key of a (type, rule, identifier) triple
EntryOf(store, type, ruleName, identifier) ==
    LET key == getRateLimitKey(type, identifier, ruleName) IN
    IF key \in DOMAIN store THEN [present |-> TRUE, entry |-> store[key]]
    ELSE [present |-> FALSE]

\* C9: rateLimitMiddleware keeps one counter per (type, rule name, identifier):
\* a call leaves the entry of every other triple as it was, and a triple with
\* no entry of its own is not limited, whatever the other triples have used.
C9_TriplesIndependent ==
    [][lastMiddleware'.n # lastMiddleware.n =>
        LET m == lastMiddleware' IN
        /\ \A type \in Types, ruleName \in RuleNames, identifier \in Identifiers :
              <<type, ruleName, identifier>> # <<m.type, m.rule, m.identifier>> =>
                EntryOf(rateLimitStore', type, ruleName, identifier)
                    = EntryOf(rateLimitStore, type, ruleName, identifier)
        /\ ~EntryOf(rateLimitStore, m.type, m.rule, m.identifier).present => ~m.limited
        /\ EntryOf(rateLimitStore', m.type, m.rule, m.identifier).present
      ]_vars

\* one triple is limited, and then a triple that differs only in the rule is not
C9_Witness ==
    /\ lastMiddleware.n = 5
    /\ ~lastMiddleware.limited
    /\ lastMiddleware.rule = "LOGIN"
    /\ \E key \in DOMAIN rateLimitStore :
          /\ key = getRateLimitKey(lastMiddleware.type, lastMiddleware.identifier,
                                   "REGISTRATION")
          /\ rateLimitStore[key].blockedUntil > now
    /\ Cardinality(DOMAIN rateLimitStore) = 2

(***************************************************************************)
(* The account lockout: claims                                             *)
(***************************************************************************)
\* C10: for an identity with no recorded failures, the first four
\* recordFailedLogin calls made within the failure window return
\* locked = false with attemptsRemaining 4, 3, 2, 1 in that order, and the
\* fifth returns locked = true with lockedUntil = the time of that call plus
\* lockoutDurationMs.
C10_LockoutThreshold ==
    \A email \in Emails :
        ( /\ lastLockout.op = "recordFailedLogin"
          /\ lastLockout.email = email
          /\ lastLockout.at - failures[email].first <= failureWindowMs )
        => /\ failures[email].n \in 1..4 =>
                lastLockout.ret =
                    [locked |-> FALSE, attemptsRemaining |-> 5 - failures[email].n]
           /\ failures[email].n = 5 =>
                lastLockout.ret =
                    [locked |-> TRUE, lockedUntil |-> lastLockout.at + lockoutDurationMs]

\* the fifth failure arrives exactly a failure window after the first and locks
C10_Witness ==
    \E email \in Emails :
        /\ lastLockout.op = "recordFailedLogin"
        /\ lastLockout.email = email
        /\ failures[email].n = 5
        /\ lastLockout.at = failures[email].first + failureWindowMs
        /\ lastLockout.ret.locked

\* the identity holds a lock that has not elapsed at time t
LockHeld(store, email, t) ==
    /\ email \in DOMAIN store
    /\ store[email].lockedUntil # 0
    /\ t < store[email].lockedUntil

\* C11: once recordFailedLogin has locked an identity, no step other than
\* clearFailedLogins (recordFailedLogin, isAccountLocked, cleanupExpiredEntries,
\* the passing of time) removes the lock or moves lockedUntil back, and every
\* isAccountLocked call made before lockedUntil returns locked = true with it.
C11_LockAuthoritative ==
    [][\A email \in Emails :
         ( /\ LockHeld(accountLockoutStore, email, now')
           /\ ~ClearFailedLogins(email) )
         => /\ email \in DOMAIN accountLockoutStore'
            /\ accountLockoutStore'[email].lockedUntil
                  >= accountLockoutStore[email].lockedUntil
            /\ IsAccountLocked(email) =>
                  lastLockout'.ret =
                      [locked |-> TRUE,
                       lockedUntil |-> accountLockoutStore[email].lockedUntil]]_vars

\* isAccountLocked reports a lock after a later recordFailedLogin, made more
\* than a failure window after the locking one, has restarted the count
C11_Witness ==
    \E email \in Emails :
        /\ lastLockout.op = "isAccountLocked"
        /\ lastLockout.email = email
        /\ lastLockout.ret.locked
        /\ email \in DOMAIN accountLockoutStore
        /\ accountLockoutStore[email].failedAttempts = 1
        /\ failures[email].n = maxFailedAttempts + 1

\* C12: an isAccountLocked call made at or after lockedUntil returns
\* locked = false and leaves the entry with failedAttempts = 0 and no
\* lockedUntil, and the recordFailedLogin call that follows it returns
\* locked = false with attemptsRemaining = maxFailedAttempts - 1.
C12_LockExpires ==
    \A email \in Emails :
        (lastLockout.email = email /\ lastLockout.expired)
        => /\ lastLockout.op = "isAccountLocked" =>
                /\ lastLockout.ret = [locked |-> FALSE]
                /\ email \in DOMAIN accountLockoutStore =>
                      /\ accountLockoutStore[email].failedAttempts = 0
                      /\ accountLockoutStore[email].lockedUntil = 0
           /\ lastLockout.op = "recordFailedLogin" =>
                lastLockout.ret =
                    [locked |-> FALSE, attemptsRemaining |-> maxFailedAttempts - 1]

\* a lock elapsed, isAccountLocked reset the entry and the failure recorded
\* next was counted as the first
C12_Witness ==
    \E email \in Emails :
        /\ lastLockout.op = "recordFailedLogin"
        /\ lastLockout.email = email
        /\ lastLockout.expired
        /\ lastLockout.ret.locked = FALSE
        /\ email \in DOMAIN accountLockoutStore
        /\ accountLockoutStore[email].failedAttempts = 1

\* C13: a recordFailedLogin call made more than failureWindowMs after the
\* last recorded failure of the identity counts from 1 again: it leaves
\* failedAttempts = 1 and returns locked = false with
\* attemptsRemaining = maxFailedAttempts - 1, so failures separated by such
\* gaps never lock.
C13_FailureWindowReset ==
    [][\A email \in Emails :
         ( /\ email \in DOMAIN accountLockoutStore
           /\ now - accountLockoutStore[email].lastFailure > failureWindowMs
           /\ RecordFailedLogin(email) )
         => /\ accountLockoutStore'[email].failedAttempts = 1
            /\ lastLockout'.ret =
                  [locked |-> FALSE, attemptsRemaining |-> maxFailedAttempts - 1]]_vars

\* the fifth failure in a row arrives after a gap and is counted as the first
C13_Witness ==
    \E email \in Emails :
        /\ lastLockout.op = "recordFailedLogin"
        /\ lastLockout.email = email
        /\ failures[email].n = maxFailedAttempts
        /\ email \in DOMAIN accountLockoutStore
        /\ accountLockoutStore[email].failedAttempts = 1
        /\ accountLockoutStore[email].lockedUntil = 0
        /\ lastLockout.ret.locked = FALSE

\* C14: after clearFailedLogins(identity), whatever it found (failures or a
\* lock), isAccountLocked returns locked = false and the next
\* recordFailedLogin returns locked = false with
\* attemptsRemaining = maxFailedAttempts - 1; clearFailedLogins on an identity
\* with no entry leaves the store as it is.
C14_ClearResets ==
    [][/\ \A email \in Emails :
            (lastLockout'.email = email /\ lastLockout'.cleared \in {"failures", "lock"})
            => /\ lastLockout'.op = "isAccountLocked" =>
                    lastLockout'.ret = [locked |-> FALSE]
               /\ lastLockout'.op = "recordFailedLogin" =>
                    lastLockout'.ret =
                        [locked |-> FALSE, attemptsRemaining |-> maxFailedAttempts - 1]
       /\ \A email \in Emails :
            (email \notin DOMAIN accountLockoutStore /\ ClearFailedLogins(email))
            => accountLockoutStore' = accountLockoutStore]_vars

\* a failure recorded after clearFailedLogins lifted a lock is the first again
C14_Witness ==
    \E email \in Emails :
        /\ lastLockout.op = "recordFailedLogin"
        /\ lastLockout.email = email
        /\ lastLockout.cleared = "lock"
        /\ lastLockout.ret.locked = FALSE
        /\ email \in DOMAIN accountLockoutStore
        /\ accountLockoutStore[email].failedAttempts = 1

(***************************************************************************)
(* RedisRateLimiter.checkRateLimit: claims                                 *)
(***************************************************************************)
\* the calls that have returned success = true from the durable path
Admitted ==
    {c \in CallIds : rcalls[c].pc = "done" /\ rcalls[c].path = "redis"
                     /\ rcalls[c].result.success}

\* the calls made on the key of call c no later than c and less than the
\* window of c before it
InWindowOf(c) ==
    {d \in CallIds :
        /\ rcalls[d].pc # "idle"
        /\ RedisKey(rcalls[d].prefix, rcalls[d].identifier)
             = RedisKey(rcalls[c].prefix, rcalls[c].identifier)
        /\ rcalls[d].now > rcalls[c].now - rcalls[c].rule.windowMs
        /\ rcalls[d].now <= rcalls[c].now}

\* C4: for every interleaving of concurrent checkRateLimit calls on one key
\* against a healthy store, the calls admitted with timestamps inside one
\* interval of length windowMs never number more than maxRequests.
C4_AtMostMaxPerWindow ==
    \A c \in Admitted : Cardinality(InWindowOf(c) \cap Admitted) <= rule.maxRequests

\* the calls on the key of call c whose entry the store has inserted, made in
\* the windowMs of c that end at time t
RecordedInWindow(c, t) ==
    {d \in CallIds :
        /\ rcalls[d].executed >= 2
        /\ RedisKey(rcalls[d].prefix, rcalls[d].identifier)
             = RedisKey(rcalls[c].prefix, rcalls[c].identifier)
        /\ rcalls[d].now > t - rcalls[c].rule.windowMs
        /\ rcalls[d].now <= t}

\* C5: on the durable path each call inserts its own entry before counting,
\* and the totalCount it gets is the number of calls recorded for the key in
\* the last windowMs (the windowMs before the call was made, or the windowMs
\* before the store counts), the current call and the denied ones included; success
\* holds iff totalCount <= maxRequests, remainingRequests is
\* max(0, maxRequests - totalCount) and resetTime is now + windowMs.
C5_TotalCountIsWindowCount ==
    [][\A c \in CallIds :
        /\ (rcalls[c].executed < 3 /\ rcalls'[c].executed >= 3) =>
              \/ rcalls'[c].zcard = Cardinality(RecordedInWindow(c, rcalls[c].now))'
              \/ rcalls'[c].zcard = Cardinality(RecordedInWindow(c, now))'
        /\ (rcalls[c].pc = "awaiting" /\ rcalls'[c].pc = "done"
              /\ rcalls'[c].path = "redis") =>
              LET res == rcalls'[c].result
                  r == rcalls[c].rule
              IN  /\ res.totalCount = rcalls[c].zcard
                  /\ res.success = (res.totalCount <= r.maxRequests)
                  /\ res.remainingRequests = Max0(r.maxRequests - res.totalCount)
                  /\ res.resetTime = rcalls[c].now + r.windowMs
      ]_vars

\* the decision of the fixed-window algorithm for a call at time t, from the
\* record the process holds for the key
FixedWindowCount(store, key, t) ==
    IF key \in DOMAIN store /\ t <= store[key].resetTime
    THEN store[key].count + 1 ELSE 1

\* C6: when the store call of checkRateLimit raises or yields no result, the
\* call still returns: it returns the decision of the in-memory fixed-window
\* algorithm; and a call made after such a failure is sent to the store
\* again and, when the store answers, is decided by the store's count.
C6_FallbackForTheFailingCallOnly ==
    [][\A c \in CallIds :
        /\ (rcalls[c].pc = "awaiting" /\ rcalls'[c].pc # "awaiting") =>
              /\ rcalls'[c].pc = "done"
              /\ IF rcalls'[c].faulted
                 THEN LET key == RedisKey(rcalls[c].prefix, rcalls[c].identifier)
                          n == FixedWindowCount(fallbackStore[rcalls[c].proc], key, now)
                      IN  /\ rcalls'[c].path = "memory"
                          /\ rcalls'[c].result.totalCount = n
                          /\ rcalls'[c].result.success = (n <= rcalls[c].rule.maxRequests)
                 ELSE /\ rcalls'[c].path = "redis"
                      /\ rcalls'[c].result.totalCount = rcalls[c].zcard
        /\ (rcalls[c].pc = "idle" /\ rcalls'[c].pc # "idle"
              /\ \E d \in CallIds : rcalls[d].faulted) =>
              rcalls'[c].pc = "awaiting"
      ]_vars

\* a call fell back to memory and was denied there, and a later call was
\* decided by the store
C6_Witness ==
    \E d \in CallIds, c \in CallIds :
        /\ d < c
        /\ rcalls[d].pc = "done" /\ rcalls[d].faulted /\ rcalls[d].path = "memory"
        /\ ~rcalls[d].result.success
        /\ rcalls[c].pc = "done" /\ rcalls[c].path = "redis"
        /\ rcalls[c].result.success

\* C7: every checkRateLimit call eventually returns a decision, also when
\* the store never answers (the store call being bounded by a timeout).
C7_EveryCallReturns ==
    \A c \in CallIds : (rcalls[c].pc = "awaiting") ~> (rcalls[c].pc = "done")

\* the calls made with the identifier, the prefix and the rule of call c,
\* up to c
SameRuleCalls(c) ==
    {d \in CallIds :
        /\ d <= c
        /\ rcalls[d].pc # "idle"
        /\ rcalls[d].identifier = rcalls[c].identifier
        /\ rcalls[d].prefix = rcalls[c].prefix
        /\ rcalls[d].rule = rcalls[c].rule}

\* C8: calls with the same identifier and prefix under two different rules
\* never share state: what a call is told counts only calls made under its
\* own rule, on the durable path and on the in-memory fallback.
C8_RulesIndependent ==
    \A c \in CallIds :
        rcalls[c].pc = "done" =>
            rcalls[c].result.totalCount <= Cardinality(SameRuleCalls(c))

(***************************************************************************)
(* authorize: claims                                                       *)
(***************************************************************************)
\* the credentials of call a are those of an account with a password
CredentialsRight(a) ==
    /\ authCalls[a].email \in Emails
    /\ users[authCalls[a].email].found
    /\ users[authCalls[a].email].password # ""
    /\ authCalls[a].password = users[authCalls[a].email].password

\* call a returns in this step, from findUnique or from the comparison
Returns(a) ==
    /\ authCalls[a].pc \in {"findUnique", "compare"}
    /\ authCalls'[a].pc = "done"
    /\ authCalls'[a].result # "error"

\* C15: an authorize call with wrong credentials that passed the lock check
\* returns null and applies exactly one recordFailedLogin to the supplied
\* email, whether the account does not exist, exists without a password or
\* exists with another password: result and effect are a function of the
\* lockout store, the email and the time alone.
C15_NoEnumeration ==
    [][\A a \in AuthIds :
         (Returns(a) /\ ~CredentialsRight(a))
         => /\ authCalls'[a].result = "null"
            /\ authCalls'[a].recorded = 1
            /\ ~authCalls'[a].cleared
            /\ accountLockoutStore' =
                  recordFailedLogin(accountLockoutStore, authCalls[a].email, now).store]_vars

\* a wrong password for an account that exists returned null after one
\* recorded failure, as it does for an account that does not exist
C15_Witness ==
    \E a \in AuthIds :
        /\ authCalls[a].pc = "done"
        /\ authCalls[a].email \in Emails
        /\ users[authCalls[a].email].password = "right"
        /\ authCalls[a].result = "null"
        /\ authCalls[a].recorded = 1
        /\ authCalls[a].password = "wrong"
        /\ accountLockoutStore[authCalls[a].email].failedAttempts = 1

\* C16: while an identity is locked no authorize call returns the user, not
\* even with the correct password: a call returns the user only when the
\* lock has elapsed or has been cleared.
C16_LockedNeverSucceeds ==
    [][\A a \in AuthIds :
         (Returns(a) /\ authCalls'[a].result = "user")
         => ~LockHeld(accountLockoutStore, authCalls[a].email, now)]_vars

\* C17: clearFailedLogins is invoked only by a call that found the identity
\* not locked, found the user and verified the password, and that call
\* returns the user; a call that returns null has not invoked it.
C17_ClearOnlyOnSuccess ==
    \A a \in AuthIds :
        /\ authCalls[a].cleared =>
              /\ authCalls[a].lockStatus = "free"
              /\ CredentialsRight(a)
              /\ authCalls[a].result = "user"
        /\ authCalls[a].result = "null" => ~authCalls[a].cleared

\* a call with the right password cleared four recorded failures
C17_Witness ==
    \E a \in AuthIds :
        /\ authCalls[a].cleared
        /\ authCalls[a].result = "user"
        /\ authCalls[a].email \in DOMAIN accountLockoutStore
        /\ accountLockoutStore[authCalls[a].email].failedAttempts = 0
        /\ accountLockoutStore[authCalls[a].email].lastFailure = 1

(***************************************************************************)
(* DoSProtectionService.protect: claims                                    *)
(***************************************************************************)
\* protect call id is made in this step
Arrives(id) ==
    protects[id].pc = "idle" /\ protects'[id].pc # "idle"

\* C18: with the gate enabled, a request that arrives from an IP in
\* suspiciousIPs is rejected with 429 in the first step of protect: the
\* call has returned, and the limiter's records, requestCounts,
\* activeRequests and the timers are as they were.
C18_SuspiciousRejectedFirst ==
    [][\A id \in ProtectIds :
         (enabled /\ Arrives(id) /\ protects'[id].ip \in suspiciousIPs)
         => /\ protects'[id].pc = "done"
            /\ protects'[id].result = "429"
            /\ protects'[id].step = "blocked"
            /\ UNCHANGED <<fallbackStore, requestCounts, activeRequests, timers,
                           suspiciousIPs>>]_vars

\* a request was rejected because its IP is suspicious
C18_Witness ==
    \E id \in ProtectIds :
        /\ protects[id].step = "blocked"
        /\ protects[id].result = "429"
        /\ protects[id].ip \in suspiciousIPs

\* protect call id runs its size and concurrency checks in this step
ChecksLimits(id) ==
    protects[id].pc = "size" /\ protects'[id].pc # "size"

\* C19 as stated: a request from an IP that holds maxConcurrentRequests
\* active requests is rejected with 429 at the concurrency step, whatever
\* its size, and the limiter is not consulted.
C19_ConcurrencyCapAnySize ==
    [][\A id \in ProtectIds :
         ( /\ ChecksLimits(id)
           /\ ActiveForIP(activeRequests, protects[id].ip) >= maxConcurrentRequests )
         => /\ protects'[id].result = "429"
            /\ protects'[id].step = "concurrency"
            /\ fallbackStore' = fallbackStore]_vars

\* C19: a request within maxRequestSize from an IP that holds
\* maxConcurrentRequests active requests is rejected with 429 at the
\* concurrency step and the limiter is not consulted; a request from an IP
\* that holds fewer is not rejected at the concurrency step.
C19_ConcurrencyCap ==
    [][\A id \in ProtectIds :
         ChecksLimits(id)
         => /\ ( /\ ActiveForIP(activeRequests, protects[id].ip)
                       >= maxConcurrentRequests
                  /\ protects[id].request.contentLength <= maxRequestSize )
               => /\ protects'[id].result = "429"
                  /\ protects'[id].step = "concurrency"
                  /\ fallbackStore' = fallbackStore
            /\ ActiveForIP(activeRequests, protects[id].ip) < maxConcurrentRequests
               => protects'[id].step # "concurrency"]_vars

\* one IP was rejected at the cap while a request of another IP was admitted
C19_Witness ==
    \E id \in ProtectIds, other \in ProtectIds :
        /\ protects[id].step = "concurrency"
        /\ protects[id].result = "429"
        /\ protects[other].step = "admitted"
        /\ protects[other].ip # protects[id].ip
        /\ ActiveForIP(activeRequests, protects[id].ip) = maxConcurrentRequests
        /\ other > id

\* the request of call id matches a heuristic: an automation token in the
\* user agent, more than the threshold of counted requests, '../../' in the
\* content type, '../' or '..\' in the path
MatchesHeuristic(id) ==
    LET request == protects[id].request IN
    \/ \E i \in 1..Len(request.userAgent) :
          request.userAgent[i] \in {"Python", "python", "curl", "wget", "libwww",
                                    "lwp", "scanner", "bot", "crawler"}
    \/ CountOf(requestCounts, protects[id].ip) > FrequencyThreshold
    \/ \E i \in 1..Len(request.contentType) : request.contentType[i] = "../../"
    \/ \E i \in 1..Len(request.path) : request.path[i] \in {"../", "..\\"}

\* C20: a request that passed the block list, the size, the concurrency and
\* the rate limit steps and matches a heuristic is rejected with 429, its
\* IP is in suspiciousIPs afterwards and no active request is registered.
C20_AnomalyMarksAndRejects ==
    [][\A id \in ProtectIds :
         ( /\ protects[id].pc = "rateLimit"
           /\ protects'[id].pc = "done"
           /\ protects[id].rate.success
           /\ suspiciousPatternDetection
           /\ MatchesHeuristic(id) )
         => /\ protects'[id].result = "429"
            /\ protects'[id].step = "suspicious"
            /\ protects[id].ip \in suspiciousIPs'
            /\ activeRequests' = activeRequests]_vars

\* requests were rejected for their frequency and for their path, and the
\* IP is marked
C20_Witness ==
    \E id \in ProtectIds, other \in ProtectIds :
        /\ protects[id].reason = "High request frequency"
        /\ protects[other].reason = "Path traversal attempt"
        /\ protects[id].ip \in suspiciousIPs
        /\ id \notin DOMAIN activeRequests

\* C21: an IP marked suspicious at time t is in suspiciousIPs throughout
\* [t, t + 30 min): as long as the timer of a marking is not due, the IP it
\* marked is in the set, also when the IP was marked more than once.
C21_MarkingLastsItsTtl ==
    \A timer \in timers :
        (timer.kind = "suspicious" /\ now < timer.at)
        => timer.ip \in suspiciousIPs

\* the calls that protect admits through the normal path in this step
AdmittedNow ==
    {id \in ProtectIds : protects[id].pc = "rateLimit" /\ protects'[id].step = "admitted"}

\* the age of the record of call id
AgeOf(id) ==
    now - activeRequests[id].startTime

\* C22: a call that protect admits through the normal path registers exactly
\* one record, for its IP and with the time of the admission, and no other
\* return of protect registers one; with timers that run when they are due
\* no record is older than requestTimeout; a record is removed only once it
\* is requestTimeout old, so neither the completion of the handler nor the
\* sweep removes a younger one.
C22_RecordLifetime ==
    /\ [](\A id \in DOMAIN activeRequests : AgeOf(id) <= requestTimeout)
    /\ [][/\ DOMAIN activeRequests' \ DOMAIN activeRequests = AdmittedNow
          /\ \A id \in AdmittedNow :
                activeRequests'[id] = [startTime |-> now, ip |-> protects[id].ip]
          /\ \A id \in DOMAIN activeRequests \ DOMAIN activeRequests' :
                AgeOf(id) >= requestTimeout
          /\ \A id \in DOMAIN activeRequests \cap DOMAIN activeRequests' :
                activeRequests'[id] = activeRequests[id]
          /\ \A id \in ProtectIds :
                (protects[id].pc = "handler" /\ protects'[id].pc = "returned")
                => activeRequests' = activeRequests
          /\ CleanupStaleRequests
                => \A id \in DOMAIN activeRequests :
                      AgeOf(id) <= requestTimeout => id \in DOMAIN activeRequests'
         ]_vars

\* one admitted call whose handler still runs has lost its record to the
\* timer, and another whose handler has returned still has its record
C22_Witness ==
    \E id, other \in ProtectIds :
        /\ protects[id].step = "admitted"
        /\ protects[id].pc = "handler"
        /\ id \notin DOMAIN activeRequests
        /\ protects[other].step = "admitted"
        /\ protects[other].pc = "returned"
        /\ other \in DOMAIN activeRequests
        /\ AgeOf(other) < requestTimeout

Rejections == {"413", "429"}

\* C24: a withDoSProtection call whose protect returned a rejection returns
\* that response and its handler is never called; one whose protect returned
\* null calls its handler once and returns the handler's response, or a 500
\* when the handler throws.
C24_WrapperContract ==
    /\ [](\A id \in ProtectIds :
            /\ protects[id].invoked <= 1
            /\ protects[id].invoked = 1 => protects[id].result = "null"
            /\ (protects[id].pc = "returned" /\ protects[id].result \in Rejections)
               => /\ protects[id].response = protects[id].result
                  /\ protects[id].invoked = 0
            /\ (protects[id].pc = "returned" /\ protects[id].result = "null")
               => /\ protects[id].invoked = 1
                  /\ protects[id].response \in HandlerResponses \cup {"500"})
    /\ [][\A id \in ProtectIds :
            /\ HandlerThrows(id) => protects'[id].response = "500"
            /\ \A response \in HandlerResponses :
                  HandlerReturns(id, response) => protects'[id].response = response
            /\ (protects[id].pc = "done" /\ protects'[id].pc = "returned")
               => protects'[id] = [protects[id] EXCEPT !.pc = "returned",
                                                       !.response = protects[id].result]
         ]_vars

\* one call has returned the 413 of the gate without calling its handler,
\* another the 500 for a handler that threw
C24_Witness ==
    \E id, other \in ProtectIds :
        /\ protects[id].pc = "returned"
        /\ protects[id].result = "413"
        /\ protects[id].response = "413"
        /\ protects[id].invoked = 0
        /\ protects[other].pc = "returned"
        /\ protects[other].result = "null"
        /\ protects[other].response = "500"
        /\ protects[other].invoked = 1

\* the methods of a run that are none of POST, PUT, DELETE and PATCH in
\* any case
SafeMethods == {"GET", "get", "HEAD", "OPTIONS"}

\* C25: csrfProtection returns null for a request whose method is none of
\* POST, PUT, DELETE and PATCH, whatever its Origin and Referer are.
C25_SafeMethodsUnchecked ==
    (lastCsrf.n = 1 /\ lastCsrf.request.method \in SafeMethods)
    => lastCsrf.response = NoResponse

\* a GET with a foreign Origin and no Referer was let through
C25_Witness ==
    /\ lastCsrf.n = 1
    /\ lastCsrf.request.method = "get"
    /\ lastCsrf.request.origin = <<"https:", "//", "malicious-site.com">>
    /\ lastCsrf.request.referer = NoHeader
    /\ lastCsrf.response = NoResponse

\* the last call was made with a state-changing method
CheckedCall ==
    lastCsrf.n = 1 /\ lastCsrf.request.method \in Methods \ SafeMethods

\* the last call let the request through
Allowed ==
    lastCsrf.response = NoResponse

\* C26 as stated: with a state-changing method and an Origin header present,
\* the request is allowed iff Origin is a member of allowedOrigins. The
\* empty Origin header is present, and the Referer decides for it.
C26_OriginPresentDecides ==
    (CheckedCall /\ lastCsrf.request.origin # NoHeader)
    => /\ Allowed <=> lastCsrf.request.origin \in getAllowedOrigins(env)
       /\ ~Allowed => lastCsrf.response = CsrfRejection

\* C26, amended: with a state-changing method and an Origin header that is
\* not empty, the request is allowed iff Origin is, piece for piece, a member
\* of allowedOrigins, whatever the Referer is; it is rejected with 403
\* otherwise.
C26_OriginDecides ==
    (CheckedCall /\ lastCsrf.request.origin \notin {NoHeader, <<>>})
    => /\ Allowed <=> lastCsrf.request.origin \in getAllowedOrigins(env)
       /\ ~Allowed => lastCsrf.response = CsrfRejection

\* a POST with a foreign Origin and the Referer of an allowed page was
\* rejected
C26_Witness ==
    /\ CheckedCall
    /\ lastCsrf.request.origin = <<"https:", "//", "malicious-site.com">>
    /\ lastCsrf.request.referer = LocalOrigin \o <<"/dashboard/add-plant">>
    /\ LocalOrigin \in getAllowedOrigins(env)
    /\ lastCsrf.response = CsrfRejection

\* C27: with a state-changing method and no Origin header, the request is
\* allowed iff it has a Referer that parses as a URL whose scheme://host is a
\* member of allowedOrigins; it is rejected with 403 and the code
\* CSRF_VALIDATION_FAILED otherwise, so with a Referer that does not parse
\* and with no Referer.
C27_RefererDecides ==
    (CheckedCall /\ lastCsrf.request.origin = NoHeader)
    => LET referer == lastCsrf.request.referer
           url == ParseURL(referer)
       IN  /\ Allowed <=> /\ referer # NoHeader
                          /\ url.ok
                          /\ <<url.protocol, "//">> \o url.host
                                \in getAllowedOrigins(env)
           /\ ~Allowed => lastCsrf.response
                             = [status |-> 403, code |-> "CSRF_VALIDATION_FAILED"]

\* a POST with no Origin and the Referer of an allowed page, written in
\* capitals, was let through
C27_Witness ==
    /\ CheckedCall
    /\ lastCsrf.request.origin = NoHeader
    /\ lastCsrf.request.referer = <<"HTTP:", "//", "LOCALHOST", ":3000", "/x">>
    /\ Allowed

\* C28: the CSRF check is the first check of every route handler call, and
\* a call that returned the 403 of the CSRF check has made no call of the
\* limiter.
C28_CsrfBeforeRateLimit ==
    \A id \in RouteIds :
        LET checks == routeCalls[id].checks IN
        /\ checks # <<>> => checks[1].check = "csrf"
        /\ routeCalls[id].result = "403"
           => \A i \in 1..Len(checks) : checks[i].check = "csrf"

\* the checks of the limiter that route handler call id has made
LimiterChecks(id) ==
    {i \in 1..Len(routeCalls[id].checks) :
        routeCalls[id].checks[i].check \in {"user", "ip"}}

\* C29: a call of the analyze or identify route that has reached the
\* business logic has made the check of its user and the check of its IP and
\* neither was limited; and a check is limited exactly when the calls made
\* for its own type, rule and identifier exceed the rule's maxRequests, so
\* never because of the calls made for another type with the same
\* identifier.
C29_BothChecksIndependent ==
    \A id \in RouteIds :
        LET call == routeCalls[id] IN
        /\ (call.route \in {"analyze", "identify"} /\ call.pc = "business")
           => /\ \E i \in LimiterChecks(id) :
                    call.checks[i].check = "user" /\ ~call.checks[i].failed
              /\ \E i \in LimiterChecks(id) :
                    /\ call.checks[i].check = "ip"
                    /\ call.checks[i].identifier = call.request.ip
                    /\ ~call.checks[i].failed
        /\ \A i \in LimiterChecks(id) :
              call.checks[i].failed
              <=> call.checks[i].hits > RATE_LIMIT_RULES[RouteRule(call.route)].maxRequests

\* user u1 has reached the business logic of the analyze route while the
\* quota counted for the IP u1 was used up
C29_Witness ==
    \E id \in RouteIds :
        /\ routeCalls[id].route = "analyze"
        /\ routeCalls[id].pc = "business"
        /\ routeCalls[id].request.ip = <<"1.2.3.4">>
        /\ \E i \in LimiterChecks(id) :
              /\ routeCalls[id].checks[i].check = "user"
              /\ routeCalls[id].checks[i].identifier = <<"u1">>
        /\ hits[[type |-> "ip", rule |-> "AI_ANALYZE", identifier |-> <<"u1">>]]
              >= RATE_LIMIT_RULES["AI_ANALYZE"].maxRequests

\* C30: a run of cleanupExpiredEntries removes a rate limit entry only when
\* its block, if any, is over and its counting window has passed, under any
\* rule; so a call of isRateLimited that would have been limited before the
\* run is limited after it.
C30_CleanupKeepsActive ==
    [][CleanupExpiredEntries
       => \A key \in DOMAIN rateLimitStore :
            /\ key \notin DOMAIN rateLimitStore'
               => /\ ~Blocked(rateLimitStore[key], now)
                  /\ WindowExpired(rateLimitStore[key], rule, now)
            /\ isRateLimited(rateLimitStore, key, rule, now).ret.limited
               => isRateLimited(rateLimitStore', key, rule, now).ret.limited
      ]_vars

(***************************************************************************)
(* C37: recordFailedLogin agrees with the lock                             *)
(***************************************************************************)
\* C37: whenever isAccountLocked would report the identity locked at the
\* time of a recordFailedLogin call (now < lockedUntil), that call returns
\* locked = TRUE, never locked = FALSE with attemptsRemaining.
C37_RecordAgreesWithLock ==
    [][\A email \in Emails :
          (/\ RecordFailedLogin(email)
           /\ isAccountLocked(accountLockoutStore, email, now).ret.locked)
          => lastLockout'.ret.locked]_vars

(***************************************************************************)
(* C33: the in-memory limiter as a sliding window                          *)
(***************************************************************************)
\* the calls of key admitted in the interval of length windowMs that starts
\* with call i
AdmittedWithin(key, i) ==
    {j \in 1..Len(calls[key]) :
        /\ ~calls[key][j].ret.limited
        /\ calls[key][j].at >= calls[key][i].at
        /\ calls[key][j].at - calls[key][i].at < rule.windowMs}

\* C33: for any key and rule, in every time interval of length windowMs at
\* most maxRequests calls of isRateLimited return limited = false.
C33_SlidingWindow ==
    \A key \in Keys : \A i \in 1..Len(calls[key]) :
        Cardinality(AdmittedWithin(key, i)) <= rule.maxRequests

(***************************************************************************)
(* C34: the concurrency cap under interleaving                             *)
(***************************************************************************)
\* C34: however the protect calls in flight interleave at their awaits, no
\* IP ever holds more than maxConcurrentRequests ActiveRequestRecords.
C34_CapUnderInterleaving ==
    \A ip \in IPs : ActiveForIP(activeRequests, ip) <= maxConcurrentRequests

(***************************************************************************)
(* C32: the rolling counter of the frequency check                         *)
(***************************************************************************)
\* protect call id runs the frequency check of detectSuspiciousPatterns in
\* this step
ReachesFrequencyCheck(id) ==
    /\ protects[id].pc = "rateLimit"
    /\ protects'[id].pc = "done"
    /\ protects[id].rate.success
    /\ suspiciousPatternDetection
    /\ detectSuspiciousPatterns(protects[id].request, protects[id].ip,
                                requestCounts).counted

\* the requests of an IP that reached the frequency check and whose minute
\* has not run out
CountedInLastMinute(ip) ==
    Cardinality({timer \in timers : timer.kind = "count" /\ timer.ip = ip})

\* C32: when a request reaches the frequency check, the counter of its IP
\* is the number of the IP's requests that reached the check during the
\* last 60 seconds, the current one included, and the request is flagged
\* suspicious as soon as that number exceeds the threshold.
C32_FlaggedOverThreshold ==
    [][\A id \in ProtectIds :
         ReachesFrequencyCheck(id)
         => /\ CountOf(requestCounts', protects[id].ip)
                 = (CountedInLastMinute(protects[id].ip))'
            /\ CountOf(requestCounts', protects[id].ip) > FrequencyThreshold
                 => /\ protects'[id].step = "suspicious"
                    /\ protects[id].ip \in suspiciousIPs']_vars

(***************************************************************************)
(* C35: the quotas of the path classes                                     *)
(***************************************************************************)
\* protect call id asks the limiter in this step
AsksLimiter(id) ==
    protects[id].pc = "size" /\ protects'[id].pc = "rateLimit"

\* the calls of the IP of call id that have asked the limiter under the
\* rule of call id
AskedUnderSameRule(id) ==
    {other \in ProtectIds :
        /\ protects[other].rule = protects[id].rule
        /\ protects[other].ip = protects[id].ip}

\* C35: the rule of a request is chosen by its path class and applied to a
\* count of the IP's requests of that class: what the limiter counts for a
\* request is no more than the IP's requests of its class, and a request is
\* rejected by the limiter only when more than maxRequests requests of its
\* class have come from its IP.
C35_ClassQuotasSeparate ==
    [][\A id \in ProtectIds :
         AsksLimiter(id)
         => /\ protects'[id].rule = RuleNameForPath(protects[id].request.path)
            /\ protects'[id].rate.totalCount <= Cardinality(AskedUnderSameRule(id)')
            /\ ~protects'[id].rate.success
                 => Cardinality(AskedUnderSameRule(id)')
                       > GATE_RATE_LIMIT_RULES[protects'[id].rule].maxRequests]_vars

(***************************************************************************)
(* C38: the sweep as seen through the lockout functions                    *)
(***************************************************************************)
\* C38: cleanupExpiredEntries changes no result of the lockout functions:
\* a recordFailedLogin or isAccountLocked call made after the sweep returns
\* what it would have returned had the sweep not run.
C38_CleanupTransparent ==
    [][CleanupExpiredEntries
       => \A email \in Emails :
             /\ recordFailedLogin(accountLockoutStore', email, now).ret
                   = recordFailedLogin(accountLockoutStore, email, now).ret
             /\ isAccountLocked(accountLockoutStore', email, now).ret
                   = isAccountLocked(accountLockoutStore, email, now).ret]_vars

(***************************************************************************)
(* C36: the lockout of the Redis limiter on its in-memory store            *)
(***************************************************************************)
\* C36: on the in-memory store, the fifth of five recordFailedLogin calls
\* for an identity made within 15 minutes, none of the four before it
\* having found the identity locked, returns locked = TRUE, whatever
\* isAccountLocked and cleanup calls were made between them.
C36_FiveFailuresLock ==
    \A email \in Emails : \A i \in maxAttempts..Len(lockLog[email]) :
        ( /\ lockLog[email][i].at - lockLog[email][i - maxAttempts + 1].at
                <= lockDuration
          /\ \A j \in (i - maxAttempts + 1)..(i - 1) : ~lockLog[email][j].locked )
        => lockLog[email][i].locked

(***************************************************************************)
(* C31: the sweeps run twice                                               *)
(***************************************************************************)
\* C31: a second run of cleanupExpiredEntries, or of the limiter's cleanup,
\* at the instant of the first leaves the stores as the first run left
\* them: it removes nothing more.
C31_SweepIdempotent ==
    [][/\ CleanupExpiredEntries
          => cleanupExpiredEntries(rateLimitStore', accountLockoutStore', now)
                = [rateLimitStore |-> rateLimitStore',
                   accountLockoutStore |-> accountLockoutStore']
       /\ LimiterCleanup
          => cleanup(fallbackStore'["p1"], lockStore', now)
                = [fallbackStore |-> fallbackStore'["p1"],
                   lockStore |-> lockStore']]_vars

\* each of the four stores has lost an entry to a sweep
C31_Witness ==
    /\ lastLockout.op = "recordFailedLogin"
    /\ lastLockout.email \notin DOMAIN accountLockoutStore
    /\ rateLimitStore = <<>>
    /\ \E email \in Emails :
          Len(lockLog[email]) > 0 /\ email \notin DOMAIN lockStore
    /\ \E c \in CallIds :
          /\ rcalls[c].path = "memory"
          /\ RedisKey(rcalls[c].prefix, rcalls[c].identifier)
                \notin DOMAIN fallbackStore["p1"]

(***************************************************************************)
(* C39: the over-count across outages                                      *)
(***************************************************************************)
\* the calls that returned success = true, by the store or by the fallback
AdmittedEitherWay ==
    {c \in DOMAIN rcalls : rcalls[c].pc = "done" /\ rcalls[c].result.success}

\* the admitted calls on the key of call c made in the interval of length
\* windowMs that starts with call c
AdmittedFrom(c) ==
    {d \in AdmittedEitherWay :
        /\ RedisKey(rcalls[d].prefix, rcalls[d].identifier)
             = RedisKey(rcalls[c].prefix, rcalls[c].identifier)
        /\ rcalls[d].now >= rcalls[c].now
        /\ rcalls[d].now - rcalls[c].now < rcalls[c].rule.windowMs}

====
